---------------------------- MODULE Spec2Model ----------------------------
(***************************************************************************)
(* dns44: the mapping store (mapping/db.go), the future connection         *)
(* (tproxy/future_conn.go), the UDP and TCP forwarders (tproxy/udp.go,     *)
(* tproxy/tcp.go), the DNS handler (dnsproxy/dnsproxy.go) and the address  *)
(* pool (package pool).                                                    *)
(*                                                                         *)
(* The specifications of this module:                                      *)
(*   Spec      the mapping store under concurrent EnsureMapping callers,   *)
(*             sweeps, reverse lookups and a ticking clock;                *)
(*   SpecSeq   the mapping store under one caller that repeats calls;      *)
(*   SpecSweep one caller allocating for one second, on a clock of whole   *)
(*             seconds;                                                    *)
(*   SpecFC    one futureConn with concurrent writers, its background dial *)
(*             and a reader;                                               *)
(*   SpecUDP   the UDP receive loop, its conntrack table, the upstream     *)
(*             dial, the reply loops and Close;                            *)
(*   SpecTCP   one accepted TCP connection spliced to its upstream;        *)
(*   SpecDNS   the DNS request handler over the mapping store;             *)
(*   SpecPool  pool.New and GetRandom;                                     *)
(*   SpecUDPMiss  the UDP forwarder over a store that holds a row with an  *)
(*             empty domain name.                                          *)
(***************************************************************************)
EXTENDS Integers, Sequences, FiniteSets, TLC

VARIABLES
    \* ---- mapping store (mapping/db.go) ----
    table,        \* rows of the SQL table "mapping"
    lastCleanup,  \* SQLiteMapping.lastCleanup, in clock ticks (0 = zero time.Time)
    now,          \* the wall clock, in ticks of 1/TicksPerSec second
    mpc,          \* per caller: position inside EnsureMapping
    margs,        \* per caller: (clientKey, domainName, ttl) of the call
    mi,           \* per caller: the loop counter i of EnsureMapping
    mres,         \* per caller: what EnsureMapping returned
    prev,         \* the previous completed call of the sequential caller, when remembered
    ncalls,       \* number of EnsureMapping calls issued so far
    \* ---- future connection (tproxy/future_conn.go) ----
    conn,         \* futureConn.conn: "nil" or "sock"
    connErr,      \* futureConn.connErr: "nil" or "dial error"
    connCh,       \* futureConn.connCh: "open" or "closed"
    backlogCap,   \* capacity of the channel futureConn.backlog
    backlog,      \* contents of the channel futureConn.backlog
    backlogClosed,\* whether the channel futureConn.backlog is closed
    doWrites,     \* futureConn.doWrites
    muxReaders,   \* backlogMux: the writers of datagrams holding RLock
    muxWriter,    \* backlogMux: "free", "pending" (Lock waiting) or "held"
    bgpc,         \* position of the goroutine bgDial
    wpc,          \* per caller of Write: position inside Write
    wbuf,         \* per caller of Write: the payload b
    wseen,        \* per caller of Write: the value of doWrites it read
    wret,         \* per caller of Write: what Write returned
    nwrites,      \* number of Write calls issued so far
    accepted,     \* payloads whose Write returned success, in order of acceptance
    buffered,     \* payloads sent to the backlog channel, in order
    upstream,     \* payloads handed to the underlying conn.Write, in order
    sockClosed,   \* whether the underlying socket was closed
    rpc,          \* the reader: position inside Read/Close/SetReadDeadline
    rop,          \* the reader: which operation it called
    rret,         \* the reader: what the operation returned
    \* ---- UDP forwarder (tproxy/udp.go) ----
    inbox,        \* datagrams queued at the listening socket, oldest first
    narrived,     \* number of datagrams that have arrived so far
    lpc,          \* position of the goroutine listen
    cur,          \* listen: the datagram it has read (from, to, payload)
    connTrackTable, \* UDPProxy.connTrackTable: the flows that have an entry
    connTrackLock,  \* UDPProxy.connTrackLock: "free" or its holder
    openConns,    \* the flows whose upstream connection is open
    rlpc,         \* per flow: position of its goroutine replyLoop
    forwarded,    \* datagrams written to their upstream connection, in order
    dropped,      \* datagrams listen gave up on, in order
    listenerClosed, \* whether the listening socket is closed
    cpc,          \* position of the caller of UDPProxy.Close
    respConns,    \* the flows whose reply socket (respConn) is open
    idle,         \* per flow: clock ticks since replyLoop set the read deadline
    panicked,     \* whether a goroutine has panicked (the process is gone)
    rlerr,        \* per flow: the error on which replyLoop returned ("nil" while it runs)
    hit,          \* listen's variable hit: the key of the datagram in hand was in the table
    \* ---- TCP forwarder (tproxy/tcp.go) ----
    hpc,          \* position of the goroutine handle of the accepted connection
    tdst,         \* the local (original destination) address of the accepted connection
    tports,       \* the ports of the accepted connection: r of RemoteAddr, l of LocalAddr
    tdials,       \* the addresses handle has passed to DialContext, in order
    rightKind,    \* the upstream connection: "none" or one of ConnKinds
    leftState,    \* the client connection as the proxy holds it: "none", "open", "wclosed", "closed"
    rightState,   \* the upstream connection as the proxy holds it
    fwd,          \* per direction ("lr": client to upstream, "rl"): position of unidirForward
    cSent,        \* number of bytes the client has sent
    cFin,         \* whether the client has closed its sending direction
    uSent,        \* number of bytes the upstream has sent
    uFin,         \* whether the upstream has closed its sending direction
    c2p,          \* bytes sent by the client and not yet read by the proxy
    u2p,          \* bytes sent by the upstream and not yet read by the proxy
    upRecv,       \* bytes the proxy has written to the upstream connection
    clRecv,       \* bytes the proxy has written to the client connection
    \* ---- DNS handler (dnsproxy/dnsproxy.go) ----
    dttl,         \* DNSProxy.ttl, the configured TTL in seconds
    dpc,          \* position of requestHandler
    dq,           \* the query being handled: its name, type and source address
    dresp,        \* what requestHandler left: its error and the response ctx.Res
    \* ---- address pool (package pool) ----
    pargs,        \* the start and end given to pool.New
    pwide,        \* TRUE where int is wider than uint32 (64-bit builds)
    pool,         \* what New returned: the pool's base and size, or its error
    pdraw         \* the result of the last GetRandom

mapVars == <<table, lastCleanup, now, mpc, margs, mi, mres, prev, ncalls>>
fcVars  == <<conn, connErr, connCh, backlogCap, backlog, backlogClosed, doWrites,
             muxReaders, muxWriter, bgpc, wpc, wbuf, wseen, wret, nwrites,
             accepted, buffered, upstream, sockClosed, rpc, rop, rret>>
udpVars == <<inbox, narrived, lpc, cur, connTrackTable, connTrackLock, openConns,
             rlpc, forwarded, dropped, listenerClosed, cpc, respConns, idle, panicked,
             rlerr, hit>>
tcpVars == <<hpc, tdst, tports, tdials, rightKind, leftState, rightState, fwd, cSent, cFin, uSent, uFin,
             c2p, u2p, upRecv, clRecv>>
dnsVars == <<dttl, dpc, dq, dresp>>
poolVars == <<pargs, pwide, pool, pdraw>>
nonMapVars == <<fcVars, udpVars, tcpVars, dnsVars, poolVars>>
nonFcVars  == <<mapVars, udpVars, tcpVars, dnsVars, poolVars>>
nonUdpVars == <<mapVars, fcVars, tcpVars, dnsVars, poolVars>>
nonTcpVars == <<mapVars, fcVars, udpVars, dnsVars, poolVars>>
nonDnsVars == <<mapVars, fcVars, udpVars, tcpVars, poolVars>>
nonPoolVars == <<mapVars, fcVars, udpVars, tcpVars, dnsVars>>
vars    == <<mapVars, fcVars, udpVars, tcpVars, dnsVars, poolVars>>

(***************************************************************************)
(* Bounds of the model.                                                    *)
(***************************************************************************)
\* The clock starts StartTime ticks after the zero time and stops at MaxTime.
StartTime == 4
MaxTime == 8
\* EnsureMapping calls issued in one run.
MaxCalls == 3
\* EnsureMapping calls issued in one run of the concurrent callers.
MaxConcCalls == 2
\* Bytes each side of a TCP flow sends.
MaxBytes == 2
\* Datagrams arriving at the UDP listening socket in one run.
MaxDatagrams == 3
\* Write calls issued on one future connection.
MaxWrites == 4
\* The backlog argument newFutureConn is given (besides 0, "use the default").
BacklogArg == 2

\* Clock ticks per second; a ttl is given in TtlUnitsPerSec-ths of a second.
TicksPerSec == 2
TtlUnitsPerSec == 4

Procs   == {"p1", "p2"}
\* (clientKey, domainName) pairs callers ask for: one client with more domains
\* than the pool has addresses, a second client sharing a domain name.
Keys    == {<<"c1", "d1">>, <<"c1", "d2">>, <<"c1", "d3">>, <<"c2", "d1">>}
Clients == {k[1] : k \in Keys}
Domains == {k[2] : k \in Keys}
\* What the sequential caller asks for, and what the concurrent callers ask for.
SeqKeys  == {k \in Keys : k[1] = "c1"}
ConcKeys == {<<"c1", "d1">>, <<"c1", "d2">>, <<"c2", "d1">>}
\* ttl arguments: 0.25 s and 1 s.
TTLs     == {1, 4}
ConcTTLs == {4}

(***************************************************************************)
(* netip.Addr and its text form.                                           *)
(***************************************************************************)
\* A netip.Addr: a 32-bit value and its kind ("4", "4in6", or "invalid" for the
\* zero Addr).
ZeroAddr == [v |-> 0, z |-> "invalid"]
V4(n) == [v |-> n, z |-> "4"]
Mapped(n) == [v |-> n, z |-> "4in6"]
\* Addr.String(): dotted quad for an IPv4 address, "::ffff:a.b.c.d" for an
\* IPv4-mapped IPv6 address, "invalid IP" for the zero Addr.
AddrString(a) ==
    CASE a.z = "4"    -> <<"dotted", a.v>>
      [] a.z = "4in6" -> <<"::ffff:", a.v>>
      [] OTHER        -> <<"invalid IP", 0>>
\* netip.ParseAddr: the inverse on well-formed text, an error otherwise.
ParseAddr(s) ==
    CASE s[1] = "dotted"  -> [addr |-> V4(s[2]), err |-> "nil"]
      [] s[1] = "::ffff:" -> [addr |-> Mapped(s[2]), err |-> "nil"]
      [] OTHER            -> [addr |-> ZeroAddr, err |-> "parse"]
\* Addr.Unmap()
Unmap(a) == IF a.z = "4in6" THEN V4(a.v) ELSE a

\* The addresses AddrPool.GetRandom may return: the pool's range.
PoolAddrs == {V4(1), V4(2)}
\* Addresses a reverse lookup may be asked about.
LookupAddrs == PoolAddrs \cup {Mapped(1), V4(3)}


(***************************************************************************)
(* Mapping store: mapping/db.go                                            *)
(***************************************************************************)
insertRetries_OffByOne == 20 + 1
insertRetries == 20
\* 1 * time.Second, in clock ticks
cleanupDebounceInterval == 1 * TicksPerSec

\* time.Now().Unix(): whole seconds of the clock value t
Unix(t) == t \div TicksPerSec
\* int64(math.Round(ttl.Seconds())): nearest whole second, halves away from zero
RoundSeconds(ttl) == (2 * ttl + TtlUnitsPerSec) \div (2 * TtlUnitsPerSec)

\* expire := time.Now().Unix() + int64(math.Round(ttl.Seconds()))
ExpireFor_SignSlip(t, ttl) == RoundSeconds(ttl) - Unix(t)
ExpireFor(t, ttl) == Unix(t) + RoundSeconds(ttl)

Row(c, d, s, e) == [client_key |-> c, domain_name |-> d, mapped_addr |-> s, expire |-> e]

\* PRIMARY KEY (client_key, domain_name): the rows that conflict with (c, d)
PKConflict(t, c, d) == {r \in t : r.client_key = c /\ r.domain_name = d}
\* (a UNIQUE index over mapped_addr alone)
UniqueConflict_AnyClient(t, c, s) == {r \in t : r.mapped_addr = s}
\* UNIQUE (client_key, mapped_addr): the rows that conflict with (c, s)
UniqueConflict(t, c, s) == {r \in t : r.client_key = c /\ r.mapped_addr = s}

\* (the statement without its UNIQUE (client_key, mapped_addr) conflict target)
Upsert_NoUniqueTarget(t, c, d, s, e) ==
    IF PKConflict(t, c, d) # {}
    THEN [table |-> {IF r \in PKConflict(t, c, d) THEN [r EXCEPT !.expire = e] ELSE r : r \in t},
          rows  |-> <<(CHOOSE r \in PKConflict(t, c, d) : TRUE).mapped_addr>>]
    ELSE [table |-> t \cup {Row(c, d, s, e)}, rows |-> <<s>>]
\* (the statement run as a plain INSERT OR REPLACE: the row takes the candidate)
Upsert_Replace(t, c, d, s, e) ==
    IF UniqueConflict(t \ PKConflict(t, c, d), c, s) # {}
    THEN [table |-> t, rows |-> <<>>]
    ELSE [table |-> (t \ PKConflict(t, c, d)) \cup {Row(c, d, s, e)}, rows |-> <<s>>]

\* (the statement with its ON CONFLICT clauses in the other order)
Upsert_AddrFirst(t, c, d, s, e) ==
    IF UniqueConflict(t, c, s) \ PKConflict(t, c, d) # {}
    THEN [table |-> t, rows |-> <<>>]
    ELSE IF PKConflict(t, c, d) # {}
    THEN [table |-> {IF r \in PKConflict(t, c, d) THEN [r EXCEPT !.expire = e] ELSE r : r \in t},
          rows  |-> <<(CHOOSE r \in PKConflict(t, c, d) : TRUE).mapped_addr>>]
    ELSE [table |-> t \cup {Row(c, d, s, e)}, rows |-> <<s>>]

\* The statement of EnsureMapping:
\*   INSERT INTO mapping VALUES (c, d, s, e)
\*   ON CONFLICT (client_key, domain_name) DO UPDATE SET expire = e
\*   ON CONFLICT (client_key, mapped_addr) DO NOTHING RETURNING mapped_addr
\* The ON CONFLICT clauses are tried in the order written. The result is the
\* new table and the rows RETURNING yields (none: sql.ErrNoRows).
Upsert(t, c, d, s, e) ==
    IF PKConflict(t, c, d) # {}
    THEN [table |-> {IF r \in PKConflict(t, c, d) THEN [r EXCEPT !.expire = e] ELSE r : r \in t},
          rows  |-> <<(CHOOSE r \in PKConflict(t, c, d) : TRUE).mapped_addr>>]
    ELSE IF UniqueConflict(t, c, s) # {}
    THEN [table |-> t, rows |-> <<>>]
    ELSE [table |-> t \cup {Row(c, d, s, e)}, rows |-> <<s>>]

\* (a DELETE that spares the rows expired for less than a second)
PurgeExpired_SecondLate(t, unixNow) == {r \in t : ~(r.expire + 1 < unixNow)}

\* (a DELETE with "expire <= ?")
PurgeExpired_Inclusive(t, unixNow) == {r \in t : ~(r.expire <= unixNow)}

\* DELETE FROM mapping WHERE expire < ?
PurgeExpired(t, unixNow) == {r \in t : ~(r.expire < unixNow)}

\* (the query without "client_key = ?")
ReverseLookupQuery_AnyClient(t, c, a) ==
    LET m == {r \in t : r.mapped_addr = AddrString(a)}
    IN  IF m = {} THEN {[domainName |-> "", ok |-> FALSE, err |-> "nil"]}
        ELSE {[domainName |-> r.domain_name, ok |-> TRUE, err |-> "nil"] : r \in m}
\* (the query with "AND expire >= now")
ReverseLookupQuery_ExpiryFiltered(t, c, a) ==
    LET m == {r \in t : r.client_key = c /\ r.mapped_addr = AddrString(a) /\ r.expire >= Unix(now)}
    IN  IF m = {} THEN {[domainName |-> "", ok |-> FALSE, err |-> "nil"]}
        ELSE {[domainName |-> r.domain_name, ok |-> TRUE, err |-> "nil"] : r \in m}

\* SELECT domain_name FROM mapping WHERE client_key = ? AND mapped_addr = ? LIMIT 1
\* The set of results the query may give (LIMIT 1 takes any matching row).
ReverseLookupQuery(t, c, a) ==
    LET m == {r \in t : r.client_key = c /\ r.mapped_addr = AddrString(a)}
    IN  IF m = {} THEN {[domainName |-> "", ok |-> FALSE, err |-> "nil"]}
        ELSE {[domainName |-> r.domain_name, ok |-> TRUE, err |-> "nil"] : r \in m}

NoResult == [err |-> "pending", addr |-> ZeroAddr, expire |-> 0]
NoArgs   == [clientKey |-> "", domainName |-> "", ttl |-> 0]
NoPrev   == [clientKey |-> "", domainName |-> "", ttl |-> 0,
             err |-> "none", addr |-> ZeroAddr, expire |-> 0]

\* The state New() returns: an empty table on first open, lastCleanup zero.
InitMap ==
    /\ table = {}
    /\ lastCleanup = 0
    /\ now = StartTime
    /\ mpc = [p \in Procs |-> "idle"]
    /\ margs = [p \in Procs |-> NoArgs]
    /\ mi = [p \in Procs |-> 0]
    /\ mres = [p \in Procs |-> NoResult]
    /\ prev = NoPrev
    /\ ncalls = 0

\* The wall clock advances.
Tick ==
    /\ now < MaxTime
    /\ now' = now + 1
    /\ UNCHANGED <<table, lastCleanup, mpc, margs, mi, mres, prev, ncalls>>
    /\ UNCHANGED nonMapVars

\* EnsureMapping is entered; cleanup() reads lastCleanup under RLock and
\* compares it with the clock. (prev is kept only for a repeated call.)
EnsureMappingCall(p, k, ttl) ==
    /\ mpc[p] = "idle"
    /\ margs' = [margs EXCEPT ![p] = [clientKey |-> k[1], domainName |-> k[2], ttl |-> ttl]]
    /\ mi' = [mi EXCEPT ![p] = 0]
    /\ mres' = [mres EXCEPT ![p] = NoResult]
    /\ mpc' = [mpc EXCEPT ![p] =
                 IF now - lastCleanup > cleanupDebounceInterval THEN "sweep" ELSE "loop"]
    /\ prev' = IF prev.clientKey = k[1] /\ prev.domainName = k[2] /\ prev.ttl = ttl
               THEN prev ELSE NoPrev
    /\ ncalls < MaxCalls
    /\ ncalls' = ncalls + 1
    /\ UNCHANGED <<table, lastCleanup, now>>
    /\ UNCHANGED nonMapVars

\* cleanup(): under Lock, purgeExpired (a failure is only logged), then
\* lastCleanup = time.Now().
CleanupSweep(p, dbErr) ==
    /\ mpc[p] = "sweep"
    /\ table' = IF dbErr THEN table ELSE PurgeExpired(table, Unix(now))
    /\ lastCleanup' = now
    /\ mpc' = [mpc EXCEPT ![p] = "loop"]
    /\ UNCHANGED <<now, margs, mi, mres, prev, ncalls>>
    /\ UNCHANGED nonMapVars

\* One iteration of the loop of EnsureMapping: draw a candidate, compute expire,
\* run the upsert, scan the returned row. A return from inside the loop ends
\* the life of the counter i.
EnsureMappingAttempt(p, cand, dbErr) ==
    /\ mpc[p] = "loop"
    /\ mi[p] < insertRetries
    /\ LET a == margs[p]
           expire == ExpireFor(now, a.ttl)
           u == Upsert(table, a.clientKey, a.domainName, AddrString(cand), expire)
       IN  IF dbErr
           THEN /\ table' = table
                /\ mres' = [mres EXCEPT ![p] = [err |-> "upsert query error", addr |-> ZeroAddr, expire |-> 0]]
                /\ mpc' = [mpc EXCEPT ![p] = "done"]
                /\ mi' = [mi EXCEPT ![p] = 0]
           ELSE /\ table' = u.table
                /\ IF u.rows = <<>>
                   THEN /\ mi' = [mi EXCEPT ![p] = mi[p] + 1]
                        /\ UNCHANGED <<mres, mpc>>
                   ELSE /\ mres' = [mres EXCEPT ![p] =
                                     IF ParseAddr(u.rows[1]).err # "nil"
                                     THEN [err |-> "can't parse IP address", addr |-> ZeroAddr, expire |-> 0]
                                     ELSE [err |-> "nil", addr |-> ParseAddr(u.rows[1]).addr, expire |-> expire]]
                        /\ mpc' = [mpc EXCEPT ![p] = "done"]
                        /\ mi' = [mi EXCEPT ![p] = 0]
    /\ UNCHANGED <<lastCleanup, now, margs, prev, ncalls>>
    /\ UNCHANGED nonMapVars

\* The loop ran out of iterations: return ErrTooManyAttempts.
EnsureMappingExhausted(p) ==
    /\ mpc[p] = "loop"
    /\ ~(mi[p] < insertRetries)
    /\ mres' = [mres EXCEPT ![p] = [err |-> "ErrTooManyAttempts", addr |-> ZeroAddr, expire |-> 0]]
    /\ mpc' = [mpc EXCEPT ![p] = "done"]
    /\ UNCHANGED <<table, lastCleanup, now, margs, mi, prev, ncalls>>
    /\ UNCHANGED nonMapVars

\* The caller takes the result. With keep, a successful call is remembered in
\* prev, to be compared with the caller's next call.
EnsureMappingReturn(p, keep) ==
    /\ mpc[p] = "done"
    /\ prev' = IF keep /\ mres[p].err = "nil"
               THEN [clientKey |-> margs[p].clientKey, domainName |-> margs[p].domainName,
                     ttl |-> margs[p].ttl, err |-> mres[p].err, addr |-> mres[p].addr,
                     expire |-> mres[p].expire]
               ELSE NoPrev
    /\ mpc' = [mpc EXCEPT ![p] = "idle"]
    /\ margs' = [margs EXCEPT ![p] = NoArgs]
    /\ mi' = [mi EXCEPT ![p] = 0]
    /\ mres' = [mres EXCEPT ![p] = NoResult]
    /\ UNCHANGED <<table, lastCleanup, now, ncalls>>
    /\ UNCHANGED nonMapVars

\* ReverseLookup(clientKey, addr): one SELECT, no effect on the store. The set
\* of (domainName, ok, err) results the call may return.
ReverseLookup(t, c, a, dbErr) ==
    IF dbErr
    THEN {[domainName |-> "", ok |-> FALSE, err |-> "rev lookup query returned error"]}
    ELSE ReverseLookupQuery(t, c, a)

\* Concurrent callers of EnsureMapping.
NextMap ==
    \/ Tick
    \/ \E p \in Procs, k \in ConcKeys, ttl \in ConcTTLs :
          ncalls < MaxConcCalls /\ EnsureMappingCall(p, k, ttl)
    \/ \E p \in Procs, dbErr \in BOOLEAN : CleanupSweep(p, dbErr)
    \/ \E p \in Procs, cand \in PoolAddrs, dbErr \in BOOLEAN : EnsureMappingAttempt(p, cand, dbErr)
    \/ \E p \in Procs : EnsureMappingExhausted(p)
    \/ \E p \in Procs : EnsureMappingReturn(p, FALSE)

\* One caller issuing EnsureMapping calls one after another.
SeqProc == "p1"
NextSeq ==
    \/ Tick
    \/ \E k \in SeqKeys, ttl \in TTLs : EnsureMappingCall(SeqProc, k, ttl)
    \/ \E dbErr \in BOOLEAN : CleanupSweep(SeqProc, dbErr)
    \/ \E cand \in PoolAddrs, dbErr \in BOOLEAN : EnsureMappingAttempt(SeqProc, cand, dbErr)
    \/ EnsureMappingExhausted(SeqProc)
    \/ \E keep \in BOOLEAN : EnsureMappingReturn(SeqProc, keep)

\* The wall clock advances by a whole second.
TickSecond ==
    /\ now + TicksPerSec <= MaxTime
    /\ now' = now + TicksPerSec
    /\ UNCHANGED <<table, lastCleanup, mpc, margs, mi, mres, prev, ncalls>>
    /\ UNCHANGED nonMapVars

\* The ttl of one second.
OneSecond == 1 * TtlUnitsPerSec

\* One caller issuing EnsureMapping calls with ttl = 1 s at whole seconds of the
\* clock, so that a row's expire tells the instant of its call: the store is
\* new, or a call swept one second ago and its insert failed.
NextSweep ==
    \/ TickSecond
    \/ \E k \in SeqKeys : EnsureMappingCall(SeqProc, k, OneSecond)
    \/ \E dbErr \in BOOLEAN : CleanupSweep(SeqProc, dbErr)
    \/ \E cand \in PoolAddrs, dbErr \in BOOLEAN : EnsureMappingAttempt(SeqProc, cand, dbErr)
    \/ EnsureMappingExhausted(SeqProc)
    \/ EnsureMappingReturn(SeqProc, FALSE)

\* The callers of futureConn.Write.
Writers == {"w1", "w2"}
NoRet == [n |-> 0, err |-> "none"]

\* No future connection in use: the state the mapping specifications keep.
InitFCIdle ==
    /\ conn = "nil" /\ connErr = "nil" /\ connCh = "open"
    /\ backlogCap = BacklogArg /\ backlog = <<>> /\ backlogClosed = FALSE
    /\ doWrites = FALSE /\ muxReaders = {} /\ muxWriter = "free"
    /\ bgpc = "dial"
    /\ wpc = [w \in Writers |-> "idle"]
    /\ wbuf = [w \in Writers |-> <<>>]
    /\ wseen = [w \in Writers |-> FALSE]
    /\ wret = [w \in Writers |-> NoRet]
    /\ nwrites = 0 /\ accepted = <<>> /\ buffered = <<>> /\ upstream = <<>>
    /\ sockClosed = FALSE
    /\ rpc = "idle" /\ rop = "none" /\ rret = "none"

\* The flows of datagrams (source, original destination) seen by the forwarder.
Flows == {"f1", "f2", "f3"}
NoDatagram == [flow |-> "none", id |-> 0]

\* The two directions of a spliced flow.
Dirs == {"lr", "rl"}

\* No DNS query received; the DNS proxy runs with -ttl 0.
NoQuery == [qname |-> <<>>, qtype |-> "none", src |-> "none"]
NoResponse == [err |-> "none", rcode |-> "none", answer |-> <<>>]
InitDNSIdle ==
    dttl = 0 /\ dpc = "idle" /\ dq = NoQuery /\ dresp = NoResponse

\* The pool the mapping store draws from has been built over PoolAddrs; nothing
\* has been drawn through the pool model.
NoPool == [err |-> "none", base |-> 0, size |-> 0]
NoDraw == [ok |-> FALSE, panic |-> FALSE, addr |-> ZeroAddr]
InitPoolIdle ==
    /\ pargs = [start |-> V4(1), end |-> V4(2)] /\ pwide = TRUE
    /\ pool = [err |-> "nil", base |-> 1, size |-> 2] /\ pdraw = NoDraw

\* No TCP connection accepted.
NoPorts == [r |-> 0, l |-> 0]
InitTCPIdle ==
    /\ hpc = "idle" /\ tdst = ZeroAddr /\ rightKind = "none"
    /\ tports = NoPorts /\ tdials = <<>>
    /\ leftState = "none" /\ rightState = "none"
    /\ fwd = [d \in Dirs |-> "none"]
    /\ cSent = 0 /\ cFin = FALSE /\ uSent = 0 /\ uFin = FALSE
    /\ c2p = <<>> /\ u2p = <<>> /\ upRecv = <<>> /\ clRecv = <<>>

\* No UDP forwarder in use.
InitUDPIdle ==
    /\ inbox = <<>> /\ narrived = 0
    /\ lpc = "recv" /\ cur = NoDatagram
    /\ connTrackTable = {} /\ connTrackLock = "free" /\ openConns = {}
    /\ rlpc = [f \in Flows |-> "none"]
    /\ forwarded = <<>> /\ dropped = <<>>
    /\ listenerClosed = FALSE /\ cpc = "idle"
    /\ respConns = {} /\ idle = [f \in Flows |-> 0] /\ panicked = FALSE
    /\ rlerr = [f \in Flows |-> "nil"] /\ hit = FALSE

Init == InitMap /\ InitFCIdle /\ InitUDPIdle /\ InitTCPIdle /\ InitDNSIdle /\ InitPoolIdle

\* The store for NextSweep: as New() returns it, or swept a second ago and still
\* empty.
InitSweep ==
    /\ table = {} /\ now = StartTime
    /\ lastCleanup \in {0, StartTime - TicksPerSec}
    /\ mpc = [p \in Procs |-> "idle"] /\ margs = [p \in Procs |-> NoArgs]
    /\ mi = [p \in Procs |-> 0] /\ mres = [p \in Procs |-> NoResult]
    /\ prev = NoPrev /\ ncalls = 0
    /\ InitFCIdle /\ InitUDPIdle /\ InitTCPIdle /\ InitDNSIdle /\ InitPoolIdle

SpecSweep == InitSweep /\ [][NextSweep]_vars
Next == NextMap
Spec == Init /\ [][Next]_vars
SpecSeq == Init /\ [][NextSeq]_vars


(***************************************************************************)
(* Claims about the mapping store.                                         *)
(***************************************************************************)
\* The row of (c, d) in table t, if any.
RowsOf(t, c, d) == PKConflict(t, c, d)
\* The addresses allocated to client c in table t.
AllocatedFor(t, c) == {ParseAddr(r.mapped_addr).addr : r \in {x \in t : x.client_key = c}}
Found(d) == [domainName |-> d, ok |-> TRUE, err |-> "nil"]
NotFound == [domainName |-> "", ok |-> FALSE, err |-> "nil"]
\* Caller p completes its call successfully in this step.
ReturnsOk(p) == mres[p].err = "pending" /\ mres'[p].err = "nil"

\* C1: in every reachable state, under concurrent callers and sweeps, no two
\* rows of one client hold the same mapped_addr (nor the same domain).
C1_UniquePerClient ==
    \A r1, r2 \in table :
        (r1.client_key = r2.client_key /\
         (r1.mapped_addr = r2.mapped_addr \/ r1.domain_name = r2.domain_name))
        => r1 = r2
\* Two domains of one client are mapped at once, both callers having returned.
C1_Witness ==
    /\ \E r1, r2 \in table : r1.client_key = r2.client_key /\ r1.domain_name # r2.domain_name
    /\ ncalls = MaxConcCalls

\* C2: a successful EnsureMapping(c, d, ttl) -> a leaves the row (c, d, a) in the
\* table; as long as a row (c, d, a) is in the table ReverseLookup(c, a) returns
\* (d, found); and ReverseLookup(c, a') returns not-found for every a' that no
\* row of c holds.
C2_RowLooksUp ==
    \A r \in table :
        ReverseLookup(table, r.client_key, ParseAddr(r.mapped_addr).addr, FALSE)
            = {Found(r.domain_name)}
C2_UnallocatedNotFound ==
    \A c \in Clients, a \in LookupAddrs :
        a \notin AllocatedFor(table, c) => ReverseLookup(table, c, a, FALSE) = {NotFound}
C2_ReturnCommits ==
    \A p \in Procs :
        ReturnsOk(p) =>
            /\ Row(margs[p].clientKey, margs[p].domainName,
                   AddrString(mres'[p].addr), mres'[p].expire) \in table'
            /\ ReverseLookup(table', margs[p].clientKey, mres'[p].addr, FALSE)
                   = {Found(margs[p].domainName)}
C2_ReverseRoundTrip ==
    /\ [](C2_RowLooksUp /\ C2_UnallocatedNotFound)
    /\ [][C2_ReturnCommits]_vars
\* A call has returned an address, its row is in the table, and another
\* address of the pool is unallocated for that client.
C2_Witness ==
    \E p \in Procs :
        /\ mpc[p] = "done" /\ mres[p].err = "nil"
        /\ RowsOf(table, margs[p].clientKey, margs[p].domainName) # {}
        /\ \E a \in PoolAddrs : a \notin AllocatedFor(table, margs[p].clientKey)
        /\ \E c \in Clients : c # margs[p].clientKey /\ AllocatedFor(table, c) = {}

\* C3: while a row for (c, d) exists, an EnsureMapping(c, d, ttl) call that
\* returns (no store error) returns the row's stored mapped_addr whatever
\* candidate was drawn, no step changes the mapped_addr of an existing row, and
\* the second of two successive identical calls, made while the stored expire
\* of the first has not passed, returns the address of the first.
C3_ReturnsStored ==
    \A p \in Procs :
        (mpc[p] = "loop" /\ mpc'[p] = "done"
         /\ RowsOf(table, margs[p].clientKey, margs[p].domainName) # {}
         /\ mres'[p].err # "upsert query error")
        => /\ mres'[p].err = "nil"
           /\ \A r \in RowsOf(table, margs[p].clientKey, margs[p].domainName) :
                 AddrString(mres'[p].addr) = r.mapped_addr
C3_AddrUnchanged ==
    \A r \in table : \A r2 \in RowsOf(table', r.client_key, r.domain_name) :
        r2.mapped_addr = r.mapped_addr
C3_SecondCallSame ==
    \A p \in Procs :
        (ReturnsOk(p) /\ prev # NoPrev /\ Unix(now) <= prev.expire)
        => mres'[p].addr = prev.addr
C4_Refresh ==
    \A p \in Procs :
        (ReturnsOk(p) /\ prev # NoPrev)
        => /\ RowsOf(table', margs[p].clientKey, margs[p].domainName) # {}
           /\ \A r \in RowsOf(table', margs[p].clientKey, margs[p].domainName) :
                 r.expire >= prev.expire
C4_TTLRefresh == [][C4_Refresh]_vars
\* A repeated call has returned in a later second: the stored expire grew.
C4_Witness ==
    \E p \in Procs :
        /\ mpc[p] = "done" /\ mres[p].err = "nil" /\ prev # NoPrev
        /\ \E r \in RowsOf(table, margs[p].clientKey, margs[p].domainName) :
              r.expire > prev.expire

\* C5: a row (c, d, a) still in the table with expire < now is returned by
\* ReverseLookup(c, a) all the same.
C5_ExpiredStillFound ==
    \A r \in table :
        r.expire < Unix(now) =>
            Found(r.domain_name) \in
                ReverseLookup(table, r.client_key, ParseAddr(r.mapped_addr).addr, FALSE)
\* An expired row is in the table.
C5_Witness == \E r \in table : r.expire < Unix(now)

\* C6: a call for a domain without a row, made while every address of the pool
\* is held by other domains of the client, inserts nothing in any of its
\* attempts, never makes more than 20 draws, and ends (store errors aside)
\* with ErrTooManyAttempts after exactly 20 draws.
Saturated(p) ==
    /\ mpc[p] = "loop"
    /\ RowsOf(table, margs[p].clientKey, margs[p].domainName) = {}
    /\ PoolAddrs \subseteq AllocatedFor(table, margs[p].clientKey)
C6_Step ==
    \A p \in Procs :
        /\ (Saturated(p) /\ <<mpc[p], mi[p]>> # <<mpc'[p], mi'[p]>>)
           => /\ table' = table
              /\ \/ mi[p] < 20 /\ mi'[p] = mi[p] + 1 /\ mpc'[p] = "loop"
                 \/ mi[p] < 20 /\ mres'[p].err = "upsert query error"
                 \/ mi[p] = 20 /\ mi'[p] = 20 /\ mres'[p].err = "ErrTooManyAttempts"
        /\ (mres[p].err = "pending" /\ mres'[p].err = "ErrTooManyAttempts")
           => mi[p] = 20 /\ table' = table
C6_RetryBound ==
    /\ [](\A p \in Procs : mi[p] <= 20)
    /\ [][C6_Step]_vars
\* A call made with the pool exhausted for its client has returned
\* ErrTooManyAttempts.
C6_Witness ==
    \E p \in Procs :
        /\ mpc[p] = "done" /\ mres[p].err = "ErrTooManyAttempts" /\ mi[p] = 20
        /\ RowsOf(table, margs[p].clientKey, margs[p].domainName) = {}
        /\ PoolAddrs \subseteq AllocatedFor(table, margs[p].clientKey)


(***************************************************************************)
(* Future connection: tproxy/future_conn.go                                *)
(***************************************************************************)
defFutureConnBacklog == 256

\* newFutureConn: the capacity of the backlog channel for the argument given.
BacklogCapacity(arg) == IF arg < 1 THEN defFutureConnBacklog ELSE arg

\* The k-th datagram written: k, once or twice (payloads of two lengths).
Payload(k) == [j \in 1..(1 + (k % 2)) |-> k]

\* newFutureConn(dial, backlog): the channels are made, bgDial is started.
InitFC ==
    /\ InitMap /\ InitUDPIdle /\ InitTCPIdle /\ InitDNSIdle /\ InitPoolIdle
    /\ conn = "nil" /\ connErr = "nil" /\ connCh = "open"
    /\ backlogCap \in {BacklogCapacity(0), BacklogCapacity(BacklogArg)}
    /\ backlog = <<>> /\ backlogClosed = FALSE
    /\ doWrites = FALSE /\ muxReaders = {} /\ muxWriter = "free"
    /\ bgpc = "dial"
    /\ wpc = [w \in Writers |-> "idle"]
    /\ wbuf = [w \in Writers |-> <<>>]
    /\ wseen = [w \in Writers |-> FALSE]
    /\ wret = [w \in Writers |-> NoRet]
    /\ nwrites = 0 /\ accepted = <<>> /\ buffered = <<>> /\ upstream = <<>>
    /\ sockClosed = FALSE
    /\ rpc = "idle" /\ rop = "none" /\ rret = "none"

bgVars == <<conn, connErr, connCh, bgpc>>
wVars  == <<wpc, wbuf, wseen, wret, nwrites>>
rVars  == <<rpc, rop, rret>>

\* ---- Write ----
\* (a full channel that makes room by dropping its oldest datagram)
SelectSend_DropOldest(q, cap, b) ==
    IF Len(q) < cap THEN [q |-> Append(q, b), sent |-> TRUE]
    ELSE [q |-> Append(Tail(q), b), sent |-> FALSE]

\* select { case c.backlog <- buf: ... default: ... }: the send happens if the
\* channel has room, and otherwise nothing is sent.
SelectSend(q, cap, b) ==
    IF Len(q) < cap THEN [q |-> Append(q, b), sent |-> TRUE]
    ELSE [q |-> q, sent |-> FALSE]

\* make([]byte, n): n zero bytes.
MakeBytes(n) == [j \in 1..n |-> 0]
\* copy(dst, src): the first min(len(dst), len(src)) bytes of dst are replaced.
Copy(dst, src) == [j \in DOMAIN dst |-> IF j <= Len(src) THEN src[j] ELSE dst[j]]

\* (the slice is made and the payload is not copied into it)
Stored_NoCopy(b) == MakeBytes(Len(b))

\* n := len(b); stored := make([]byte, n); copy(stored, b): a slice of its own,
\* which later changes of b do not reach.
Stored(b) == Copy(MakeBytes(Len(b)), b)

\* A caller enters Write(b) with the next datagram.
WriteCall(w) ==
    /\ wpc[w] = "idle"
    /\ nwrites < MaxWrites
    /\ nwrites' = nwrites + 1
    /\ wbuf' = [wbuf EXCEPT ![w] = Payload(nwrites + 1)]
    /\ wret' = [wret EXCEPT ![w] = NoRet]
    /\ wpc' = [wpc EXCEPT ![w] = "rlock"]
    /\ UNCHANGED <<wseen, bgVars, rVars, backlogCap, backlog, backlogClosed, doWrites,
                   muxReaders, muxWriter, accepted, buffered, upstream, sockClosed>>
    /\ UNCHANGED nonFcVars

\* (an RLock that is granted while Lock is held)
WriteRLock_NoWait(w) ==
    /\ wpc[w] = "rlock"
    /\ muxReaders' = muxReaders \cup {w}
    /\ wpc' = [wpc EXCEPT ![w] = "check"]
    /\ UNCHANGED <<wbuf, wseen, wret, nwrites, bgVars, rVars, backlogCap, backlog,
                   backlogClosed, doWrites, muxWriter, accepted, buffered, upstream, sockClosed>>
    /\ UNCHANGED nonFcVars

\* c.backlogMux.RLock(): waits while Lock is held or waiting.
WriteRLock(w) ==
    /\ wpc[w] = "rlock"
    /\ muxWriter = "free"
    /\ muxReaders' = muxReaders \cup {w}
    /\ wpc' = [wpc EXCEPT ![w] = "check"]
    /\ UNCHANGED <<wbuf, wseen, wret, nwrites, bgVars, rVars, backlogCap, backlog,
                   backlogClosed, doWrites, muxWriter, accepted, buffered, upstream, sockClosed>>
    /\ UNCHANGED nonFcVars

\* if c.doWrites
WriteCheck(w) ==
    /\ wpc[w] = "check"
    /\ wseen' = [wseen EXCEPT ![w] = doWrites]
    /\ wpc' = [wpc EXCEPT ![w] = "act"]
    /\ UNCHANGED <<wbuf, wret, nwrites, bgVars, rVars, backlogCap, backlog, backlogClosed,
                   doWrites, muxReaders, muxWriter, accepted, buffered, upstream, sockClosed>>
    /\ UNCHANGED nonFcVars

\* return c.conn.Write(b), or the select on the backlog channel. sockErr: the
\* socket refuses the datagram.
WriteAct(w, sockErr) ==
    /\ wpc[w] = "act"
    /\ wpc' = [wpc EXCEPT ![w] = "unlock"]
    /\ IF wseen[w]
       THEN /\ upstream' = Append(upstream, wbuf[w])
            /\ IF sockErr \/ sockClosed
               THEN /\ wret' = [wret EXCEPT ![w] = [n |-> 0, err |-> "write error"]]
                    /\ accepted' = accepted
               ELSE /\ wret' = [wret EXCEPT ![w] = [n |-> Len(wbuf[w]), err |-> "nil"]]
                    /\ accepted' = Append(accepted, wbuf[w])
            /\ UNCHANGED <<backlog, buffered>>
       ELSE IF backlogClosed
       THEN /\ wret' = [wret EXCEPT ![w] = [n |-> 0, err |-> "panic: send on closed channel"]]
            /\ UNCHANGED <<backlog, buffered, accepted, upstream>>
       ELSE IF SelectSend(backlog, backlogCap, Stored(wbuf[w])).sent
       THEN /\ backlog' = SelectSend(backlog, backlogCap, Stored(wbuf[w])).q
            /\ buffered' = Append(buffered, wbuf[w])
            /\ accepted' = Append(accepted, wbuf[w])
            /\ wret' = [wret EXCEPT ![w] = [n |-> Len(wbuf[w]), err |-> "nil"]]
            /\ UNCHANGED upstream
       ELSE /\ backlog' = SelectSend(backlog, backlogCap, Stored(wbuf[w])).q
            /\ wret' = [wret EXCEPT ![w] = [n |-> 0, err |-> "errBacklogOverflow"]]
            /\ UNCHANGED <<buffered, accepted, upstream>>
    /\ UNCHANGED <<wbuf, wseen, nwrites, bgVars, rVars, backlogCap, backlogClosed, doWrites,
                   muxReaders, muxWriter, sockClosed>>
    /\ UNCHANGED nonFcVars

\* defer c.backlogMux.RUnlock(); the caller has the result.
WriteReturn(w) ==
    /\ wpc[w] = "unlock"
    /\ muxReaders' = muxReaders \ {w}
    /\ wpc' = [wpc EXCEPT ![w] = "idle"]
    /\ wbuf' = [wbuf EXCEPT ![w] = <<>>]
    /\ wseen' = [wseen EXCEPT ![w] = FALSE]
    /\ wret' = [wret EXCEPT ![w] = NoRet]
    /\ UNCHANGED <<nwrites, bgVars, rVars, backlogCap, backlog, backlogClosed, doWrites,
                   muxWriter, accepted, buffered, upstream, sockClosed>>
    /\ UNCHANGED nonFcVars

\* ---- bgDial ----
\* c.conn, c.connErr = dial(); on an error bgDial logs and returns.
BgDial(ok) ==
    /\ bgpc = "dial"
    /\ conn' = IF ok THEN "sock" ELSE "nil"
    /\ connErr' = IF ok THEN "nil" ELSE "dial error"
    /\ bgpc' = IF ok THEN "closeConnCh" ELSE "failed"
    /\ UNCHANGED <<connCh, wVars, rVars, backlogCap, backlog, backlogClosed, doWrites,
                   muxReaders, muxWriter, accepted, buffered, upstream, sockClosed>>
    /\ UNCHANGED nonFcVars

\* close(c.connCh)
BgCloseConnCh ==
    /\ bgpc = "closeConnCh"
    /\ connCh' = "closed"
    /\ bgpc' = "lock"
    /\ UNCHANGED <<conn, connErr, wVars, rVars, backlogCap, backlog, backlogClosed, doWrites,
                   muxReaders, muxWriter, accepted, buffered, upstream, sockClosed>>
    /\ UNCHANGED nonFcVars

\* c.backlogMux.Lock(): announces itself (new RLocks wait), ...
BgLockRequest ==
    /\ bgpc = "lock"
    /\ muxWriter' = "pending"
    /\ bgpc' = "lockWait"
    /\ UNCHANGED <<conn, connErr, connCh, wVars, rVars, backlogCap, backlog, backlogClosed,
                   doWrites, muxReaders, accepted, buffered, upstream, sockClosed>>
    /\ UNCHANGED nonFcVars

\* (a Lock that is granted while readers hold the lock)
BgLockAcquire_NoWait ==
    /\ bgpc = "lockWait"
    /\ muxWriter' = "held"
    /\ bgpc' = "flip"
    /\ UNCHANGED <<conn, connErr, connCh, wVars, rVars, backlogCap, backlog, backlogClosed,
                   doWrites, muxReaders, accepted, buffered, upstream, sockClosed>>
    /\ UNCHANGED nonFcVars

\* ... and gets the lock once the readers holding it have left.
BgLockAcquire ==
    /\ bgpc = "lockWait"
    /\ muxReaders = {}
    /\ muxWriter' = "held"
    /\ bgpc' = "flip"
    /\ UNCHANGED <<conn, connErr, connCh, wVars, rVars, backlogCap, backlog, backlogClosed,
                   doWrites, muxReaders, accepted, buffered, upstream, sockClosed>>
    /\ UNCHANGED nonFcVars

\* c.doWrites = true
BgFlip ==
    /\ bgpc = "flip"
    /\ doWrites' = TRUE
    /\ bgpc' = "closeBacklog"
    /\ UNCHANGED <<conn, connErr, connCh, wVars, rVars, backlogCap, backlog, backlogClosed,
                   muxReaders, muxWriter, accepted, buffered, upstream, sockClosed>>
    /\ UNCHANGED nonFcVars

\* close(c.backlog)
BgCloseBacklog ==
    /\ bgpc = "closeBacklog"
    /\ backlogClosed' = TRUE
    /\ bgpc' = "drain"
    /\ UNCHANGED <<conn, connErr, connCh, wVars, rVars, backlogCap, backlog, doWrites,
                   muxReaders, muxWriter, accepted, buffered, upstream, sockClosed>>
    /\ UNCHANGED nonFcVars

\* (an iteration that receives the datagram and does not write it)
BgDrainOne_Discard ==
    /\ bgpc = "drain"
    /\ backlog # <<>>
    /\ backlog' = Tail(backlog)
    /\ UNCHANGED <<bgVars, wVars, rVars, backlogCap, backlogClosed, doWrites,
                   muxReaders, muxWriter, accepted, buffered, upstream, sockClosed>>
    /\ UNCHANGED nonFcVars

\* for buf := range c.backlog { c.conn.Write(buf) }: one iteration (a write
\* error is only logged).
BgDrainOne ==
    /\ bgpc = "drain"
    /\ backlog # <<>>
    /\ upstream' = Append(upstream, Head(backlog))
    /\ backlog' = Tail(backlog)
    /\ UNCHANGED <<bgVars, wVars, rVars, backlogCap, backlogClosed, doWrites,
                   muxReaders, muxWriter, accepted, buffered, sockClosed>>
    /\ UNCHANGED nonFcVars

\* The closed channel is empty: the loop ends, the deferred Unlock runs.
BgUnlock ==
    /\ bgpc = "drain"
    /\ backlog = <<>>
    /\ muxWriter' = "free"
    /\ bgpc' = "done"
    /\ UNCHANGED <<conn, connErr, connCh, wVars, rVars, backlogCap, backlog, backlogClosed,
                   doWrites, muxReaders, accepted, buffered, upstream, sockClosed>>
    /\ UNCHANGED nonFcVars

\* ---- Read, Close, SetReadDeadline (SetDeadline and SetWriteDeadline alike) ----
ReaderOps == {"Read", "Close", "SetReadDeadline"}

\* The operation is entered and reaches c.WaitResolve().
ReaderCall(op) ==
    /\ rpc = "idle"
    /\ rop' = op
    /\ rpc' = "wait"
    /\ rret' = "none"
    /\ UNCHANGED <<bgVars, wVars, backlogCap, backlog, backlogClosed, doWrites,
                   muxReaders, muxWriter, accepted, buffered, upstream, sockClosed>>
    /\ UNCHANGED nonFcVars

\* <-c.connCh returns (the channel is closed) and the operation runs:
\* Read calls c.conn.Read; Close and SetReadDeadline look at c.connErr first.
ReaderResolve ==
    /\ rpc = "wait"
    /\ connCh = "closed"
    /\ rpc' = "done"
    /\ rret' = CASE rop = "Read" ->
                      IF conn = "nil" THEN "panic: nil conn"
                      ELSE IF sockClosed THEN "read error" ELSE "read"
                 [] rop = "Close" -> "nil"
                 [] OTHER ->
                      IF connErr # "nil" THEN "postponed error" ELSE "nil"
    /\ sockClosed' = IF rop = "Close" /\ connErr = "nil" THEN TRUE ELSE sockClosed
    /\ UNCHANGED <<rop, bgVars, wVars, backlogCap, backlog, backlogClosed, doWrites,
                   muxReaders, muxWriter, accepted, buffered, upstream>>
    /\ UNCHANGED nonFcVars

\* The caller has the result.
ReaderReturn ==
    /\ rpc = "done"
    /\ rpc' = "idle"
    /\ rop' = "none"
    /\ rret' = "none"
    /\ UNCHANGED <<bgVars, wVars, backlogCap, backlog, backlogClosed, doWrites,
                   muxReaders, muxWriter, accepted, buffered, upstream, sockClosed>>
    /\ UNCHANGED nonFcVars

NextFC ==
    \/ \E w \in Writers : WriteCall(w)
    \/ \E w \in Writers : WriteRLock(w)
    \/ \E w \in Writers : WriteCheck(w)
    \/ \E w \in Writers, sockErr \in BOOLEAN : WriteAct(w, sockErr)
    \/ \E w \in Writers : WriteReturn(w)
    \/ \E ok \in BOOLEAN : BgDial(ok)
    \/ BgCloseConnCh
    \/ BgLockRequest
    \/ BgLockAcquire
    \/ BgFlip
    \/ BgCloseBacklog
    \/ BgDrainOne
    \/ BgUnlock
    \/ \E op \in ReaderOps : ReaderCall(op)
    \/ ReaderResolve
    \/ ReaderReturn

SpecFC == InitFC /\ [][NextFC]_vars


(***************************************************************************)
(* Claims about the future connection                                      *)
(***************************************************************************)
\* The datagrams of the backlog that bgDial has handed to the connection.
Drained == Len(buffered) - Len(backlog)

\* C7: the datagrams written before the dial resolved (at most the backlog's
\* capacity) reach the upstream connection in the order written, each once:
\* what bgDial has drained is the beginning of what the connection was given,
\* what it has not drained is still queued in order, nothing is given twice,
\* and when bgDial ends everything buffered has been given.
C7_BacklogOrder ==
    /\ Len(buffered) <= backlogCap
    /\ Drained >= 0 /\ Drained <= Len(upstream)
    /\ SubSeq(upstream, 1, Drained) = SubSeq(buffered, 1, Drained)
    /\ backlog = SubSeq(buffered, Drained + 1, Len(buffered))
    /\ \A i, j \in DOMAIN upstream : upstream[i] = upstream[j] => i = j
    /\ bgpc = "done" => Drained = Len(buffered)

\* Case of C7: a full backlog was drained after a successful dial, and a later
\* write went to the connection directly.
C7_Witness ==
    /\ bgpc = "done"
    /\ Len(buffered) = backlogCap
    /\ Len(upstream) > Len(buffered)

\* C8: with B datagrams in a backlog of capacity B, the next write before the
\* dial resolves returns errBacklogOverflow with 0 bytes, is not buffered, and
\* leaves the B buffered datagrams as they were, in order.
C8_Step ==
    \A w \in Writers :
        (/\ wpc[w] = "act" /\ wpc'[w] = "unlock"
         /\ ~wseen[w] /\ Len(backlog) = backlogCap)
        => /\ wret'[w] = [n |-> 0, err |-> "errBacklogOverflow"]
           /\ backlog' = backlog
           /\ buffered' = buffered
           /\ accepted' = accepted
           /\ upstream' = upstream

C8_Overflow == [][C8_Step]_vars

\* Case of C8: the write after the B-th has returned the overflow error and the
\* B datagrams written first are the backlog.
C8_Witness ==
    /\ \E w \in Writers : wret[w] = [n |-> 0, err |-> "errBacklogOverflow"]
    /\ Len(backlog) = backlogCap
    /\ backlog = [i \in 1..backlogCap |-> Payload(i)]
    /\ bgpc = "dial"

\* C9: once the dial has failed, an operation suspended on the handle (Read,
\* SetReadDeadline, Close) is able to go on and observe the error.
C9_DialFailureObserved ==
    (bgpc = "failed" /\ rpc = "wait") => ENABLED ReaderResolve

\* Case of C9: the dial has failed while Read waits for it.
C9_Witness ==
    /\ bgpc = "failed" /\ connErr = "dial error"
    /\ rpc = "wait" /\ rop = "Read"


(***************************************************************************)
(* UDP forwarder: tproxy/udp.go                                            *)
(***************************************************************************)
\* from.Addr().String() and to.Addr() of the datagrams of a flow. f1 arrives
\* with its destination in IPv4-mapped form; f3 comes from a client that has no
\* mapping.
FlowFrom(f) == IF f = "f3" THEN "c2" ELSE "c1"
FlowTo(f)   == CASE f = "f1" -> Mapped(1) [] f = "f2" -> V4(2) [] OTHER -> V4(1)

\* A mapping table as EnsureMapping leaves it for client c1: d1 and d2 mapped.
SeededTable ==
    {Row("c1", "d1", AddrString(V4(1)), Unix(StartTime) + 1),
     Row("c1", "d2", AddrString(V4(2)), Unix(StartTime) + 1)}

UDPConnTrackTimeout == 90
\* Seconds in one tick of the forwarder's clock.
SecondsPerTick == 45
\* A read deadline is followed until it has expired.
MaxIdleTicks == UDPConnTrackTimeout \div SecondsPerTick

\* NewUDPProxy: the listener is open, listen() is started with an empty table.
InitUDP ==
    /\ table = SeededTable /\ lastCleanup = 0 /\ now = StartTime
    /\ mpc = [p \in Procs |-> "idle"] /\ margs = [p \in Procs |-> NoArgs]
    /\ mi = [p \in Procs |-> 0] /\ mres = [p \in Procs |-> NoResult]
    /\ prev = NoPrev /\ ncalls = 0
    /\ InitFCIdle
    /\ InitUDPIdle
    /\ InitTCPIdle /\ InitDNSIdle /\ InitPoolIdle

\* The kernel queues a datagram of flow f at the listening socket.
DatagramArrives(f) ==
    /\ ~panicked
    /\ narrived < MaxDatagrams
    /\ ~listenerClosed
    /\ narrived' = narrived + 1
    /\ inbox' = Append(inbox, [flow |-> f, id |-> narrived + 1])
    /\ UNCHANGED <<lpc, cur, connTrackTable, connTrackLock, openConns, rlpc, forwarded,
                   dropped, listenerClosed, cpc>>
    /\ UNCHANGED <<respConns, idle, panicked>>
    /\ UNCHANGED rlerr
    /\ UNCHANGED hit
    /\ UNCHANGED nonUdpVars

\* ReadFromUDP returns a datagram.
ListenRecv ==
    /\ ~panicked
    /\ lpc = "recv"
    /\ ~listenerClosed
    /\ inbox # <<>>
    /\ cur' = Head(inbox)
    /\ inbox' = Tail(inbox)
    /\ lpc' = "lock"
    /\ UNCHANGED <<narrived, connTrackTable, connTrackLock, openConns, rlpc, forwarded,
                   dropped, listenerClosed, cpc>>
    /\ UNCHANGED <<respConns, idle, panicked>>
    /\ UNCHANGED rlerr
    /\ UNCHANGED hit
    /\ UNCHANGED nonUdpVars

\* ReadFromUDP returns the error of a closed socket: break.
ListenStop ==
    /\ ~panicked
    /\ lpc = "recv"
    /\ listenerClosed
    /\ lpc' = "stopped"
    /\ UNCHANGED <<inbox, narrived, cur, connTrackTable, connTrackLock, openConns, rlpc,
                   forwarded, dropped, listenerClosed, cpc>>
    /\ UNCHANGED <<respConns, idle, panicked>>
    /\ UNCHANGED rlerr
    /\ UNCHANGED hit
    /\ UNCHANGED nonUdpVars

\* (a lookup in the map that never hits)
ListenLock_AlwaysMiss ==
    /\ ~panicked
    /\ lpc = "lock"
    /\ connTrackLock = "free"
    /\ connTrackLock' = "listen"
    /\ lpc' = "lookup"
    /\ UNCHANGED <<inbox, narrived, cur, connTrackTable, openConns, rlpc, forwarded,
                   dropped, listenerClosed, cpc>>
    /\ UNCHANGED <<respConns, idle, panicked>>
    /\ UNCHANGED rlerr
    /\ hit' = FALSE
    /\ UNCHANGED nonUdpVars

\* proxy.connTrackLock.Lock(); proxyConn, hit := proxy.connTrackTable[ctKey]
ListenLock ==
    /\ ~panicked
    /\ lpc = "lock"
    /\ connTrackLock = "free"
    /\ connTrackLock' = "listen"
    /\ lpc' = IF cur.flow \in connTrackTable THEN "unlock" ELSE "lookup"
    /\ UNCHANGED <<inbox, narrived, cur, connTrackTable, openConns, rlpc, forwarded,
                   dropped, listenerClosed, cpc>>
    /\ UNCHANGED <<respConns, idle, panicked>>
    /\ UNCHANGED rlerr
    /\ hit' = (cur.flow \in connTrackTable)
    /\ UNCHANGED nonUdpVars

\* (a lookup whose empty domain name is dialled)
ListenReverseLookup_DialsEmpty(dbErr) ==
    /\ ~panicked
    /\ lpc = "lookup"
    /\ \E res \in ReverseLookup(table, FlowFrom(cur.flow), Unmap(FlowTo(cur.flow)), dbErr) :
          IF res.err # "nil" \/ ~res.ok
          THEN /\ connTrackLock' = "free"
               /\ dropped' = Append(dropped, cur)
               /\ cur' = NoDatagram
               /\ lpc' = "recv"
          ELSE /\ lpc' = "dial"
               /\ UNCHANGED <<connTrackLock, dropped, cur>>
    /\ UNCHANGED <<inbox, narrived, connTrackTable, openConns, rlpc, forwarded,
                   listenerClosed, cpc>>
    /\ UNCHANGED <<respConns, idle, panicked>>
    /\ UNCHANGED rlerr
    /\ UNCHANGED hit
    /\ UNCHANGED nonUdpVars

\* makeOutboundConn up to the dial: Unmap, ReverseLookup and its three error
\* returns, after which listen unlocks and continues.
ListenReverseLookup(dbErr) ==
    /\ ~panicked
    /\ lpc = "lookup"
    /\ \E res \in ReverseLookup(table, FlowFrom(cur.flow), Unmap(FlowTo(cur.flow)), dbErr) :
          IF res.err # "nil" \/ ~res.ok \/ res.domainName = ""
          THEN /\ connTrackLock' = "free"
               /\ dropped' = Append(dropped, cur)
               /\ cur' = NoDatagram
               /\ lpc' = "recv"
          ELSE /\ lpc' = "dial"
               /\ UNCHANGED <<connTrackLock, dropped, cur>>
    /\ UNCHANGED <<inbox, narrived, connTrackTable, openConns, rlpc, forwarded,
                   listenerClosed, cpc>>
    /\ UNCHANGED <<respConns, idle, panicked>>
    /\ UNCHANGED rlerr
    /\ UNCHANGED hit
    /\ UNCHANGED nonUdpVars

\* proxy.dialer.DialContext returns (name resolution and connect are over, or
\* the dial timeout is); on success the entry is stored and replyLoop started.
ListenDialDone(ok) ==
    /\ ~panicked
    /\ lpc = "dial"
    /\ IF ok
       THEN /\ connTrackTable' = connTrackTable \cup {cur.flow}
            /\ openConns' = openConns \cup {cur.flow}
            /\ rlpc' = [rlpc EXCEPT ![cur.flow] = "start"]
            /\ lpc' = "unlock"
            /\ UNCHANGED <<connTrackLock, dropped, cur>>
       ELSE /\ connTrackLock' = "free"
            /\ dropped' = Append(dropped, cur)
            /\ cur' = NoDatagram
            /\ lpc' = "recv"
            /\ UNCHANGED <<connTrackTable, openConns, rlpc>>
    /\ UNCHANGED <<inbox, narrived, forwarded, listenerClosed, cpc>>
    /\ UNCHANGED <<respConns, idle, panicked>>
    /\ UNCHANGED rlerr
    /\ UNCHANGED hit
    /\ UNCHANGED nonUdpVars

\* proxy.connTrackLock.Unlock()
ListenUnlock ==
    /\ ~panicked
    /\ lpc = "unlock"
    /\ connTrackLock' = "free"
    /\ lpc' = "write"
    /\ UNCHANGED <<inbox, narrived, cur, connTrackTable, openConns, rlpc, forwarded,
                   dropped, listenerClosed, cpc>>
    /\ UNCHANGED <<respConns, idle, panicked>>
    /\ UNCHANGED rlerr
    /\ UNCHANGED hit
    /\ UNCHANGED nonUdpVars

\* proxyConn.Write(readBuf[:read]); an error (the connection was closed) is
\* logged.
ListenWrite ==
    /\ ~panicked
    /\ lpc = "write"
    /\ IF cur.flow \in openConns
       THEN forwarded' = Append(forwarded, cur) /\ dropped' = dropped
       ELSE dropped' = Append(dropped, cur) /\ forwarded' = forwarded
    /\ cur' = NoDatagram
    /\ lpc' = "recv"
    /\ UNCHANGED <<inbox, narrived, connTrackTable, connTrackLock, openConns, rlpc,
                   listenerClosed, cpc>>
    /\ UNCHANGED <<respConns, idle, panicked>>
    /\ UNCHANGED rlerr
    /\ hit' = FALSE
    /\ UNCHANGED nonUdpVars

\* The forwarder's clock advances by one tick for every reply loop that waits
\* in Read.
UdpTick ==
    /\ ~panicked
    /\ \E f \in Flows : rlpc[f] = "read" /\ idle[f] < MaxIdleTicks
    /\ idle' = [f \in Flows |->
                  IF rlpc[f] = "read" /\ idle[f] < MaxIdleTicks THEN idle[f] + 1 ELSE idle[f]]
    /\ UNCHANGED <<inbox, narrived, lpc, cur, connTrackTable, connTrackLock, openConns,
                   rlpc, forwarded, dropped, listenerClosed, cpc, respConns, panicked>>
    /\ UNCHANGED rlerr
    /\ UNCHANGED hit
    /\ UNCHANGED nonUdpVars

\* replyLoop: DialUDP opens the reply socket (a failure is logged and respConn
\* stays nil), then the first SetReadDeadline.
ReplyStart(f, ok) ==
    /\ ~panicked
    /\ rlpc[f] = "start"
    /\ respConns' = IF ok THEN respConns \cup {f} ELSE respConns
    /\ idle' = [idle EXCEPT ![f] = 0]
    /\ rlpc' = [rlpc EXCEPT ![f] = "read"]
    /\ UNCHANGED <<inbox, narrived, lpc, cur, connTrackTable, connTrackLock, openConns,
                   forwarded, dropped, listenerClosed, cpc, panicked>>
    /\ UNCHANGED rlerr
    /\ UNCHANGED hit
    /\ UNCHANGED nonUdpVars

\* Seconds the deadline of flow f has been running.
Elapsed(f) == idle[f] * SecondsPerTick

\* replyLoop: one proxyConn.Read and what follows it. A reply is written to the
\* client and the deadline is set again; ECONNREFUSED is retried under the same
\* deadline; the timeout, any other read error and a failed reply write end the
\* loop. A reply can only come before the deadline, from an open connection.
ReplyOutcomes == {"reply", "ECONNREFUSED", "timeout", "error"}

\* (a loop that returns on ECONNREFUSED as on any other read error)
ReplyRead_RefusedEnds(f, outcome, writeErr) ==
    /\ ~panicked
    /\ rlpc[f] = "read"
    /\ f \notin openConns => outcome = "error"
    /\ outcome = "timeout" <=> (f \in openConns /\ Elapsed(f) >= UDPConnTrackTimeout)
    /\ IF outcome \in {"timeout", "error", "ECONNREFUSED"}
       THEN rlpc' = [rlpc EXCEPT ![f] = "reap"] /\ idle' = idle
       ELSE IF writeErr \/ f \notin respConns
       THEN rlpc' = [rlpc EXCEPT ![f] = "reap"] /\ idle' = idle
       ELSE rlpc' = rlpc /\ idle' = [idle EXCEPT ![f] = 0]
    /\ UNCHANGED <<inbox, narrived, lpc, cur, connTrackTable, connTrackLock, openConns,
                   forwarded, dropped, listenerClosed, cpc, respConns, panicked>>
    /\ rlerr' = [rlerr EXCEPT ![f] =
                  CASE outcome = "timeout" -> "timeout"
                    [] outcome \in {"error", "ECONNREFUSED"} -> "read error"
                    [] outcome = "reply" /\ (writeErr \/ f \notin respConns) -> "write error"
                    [] OTHER -> "nil"]
    /\ UNCHANGED hit
    /\ UNCHANGED nonUdpVars

ReplyRead(f, outcome, writeErr) ==
    /\ ~panicked
    /\ rlpc[f] = "read"
    /\ f \notin openConns => outcome = "error"
    /\ outcome = "timeout" <=> (f \in openConns /\ Elapsed(f) >= UDPConnTrackTimeout)
    /\ IF outcome \in {"timeout", "error"}
       THEN rlpc' = [rlpc EXCEPT ![f] = "reap"] /\ idle' = idle
       ELSE IF outcome = "ECONNREFUSED"
       THEN UNCHANGED <<rlpc, idle>>
       ELSE IF writeErr \/ f \notin respConns
       THEN rlpc' = [rlpc EXCEPT ![f] = "reap"] /\ idle' = idle
       ELSE rlpc' = rlpc /\ idle' = [idle EXCEPT ![f] = 0]
    /\ UNCHANGED <<inbox, narrived, lpc, cur, connTrackTable, connTrackLock, openConns,
                   forwarded, dropped, listenerClosed, cpc, respConns, panicked>>
    /\ rlerr' = [rlerr EXCEPT ![f] =
                  CASE outcome = "timeout" -> "timeout"
                    [] outcome = "error" -> "read error"
                    [] outcome = "reply" /\ (writeErr \/ f \notin respConns) -> "write error"
                    [] OTHER -> "nil"]
    /\ UNCHANGED hit
    /\ UNCHANGED nonUdpVars

\* (a deferred function that closes the sockets and leaves the entry)
ReplyReap_KeepEntry(f, nilPanics) ==
    /\ ~panicked
    /\ rlpc[f] = "reap"
    /\ connTrackLock = "free"
    /\ openConns' = openConns \ {f}
    /\ respConns' = respConns \ {f}
    /\ panicked' = (f \notin respConns /\ nilPanics)
    /\ rlpc' = [rlpc EXCEPT ![f] = "none"]
    /\ idle' = [idle EXCEPT ![f] = 0]
    /\ UNCHANGED <<inbox, narrived, lpc, cur, connTrackTable, connTrackLock, forwarded,
                   dropped, listenerClosed, cpc>>
    /\ rlerr' = [rlerr EXCEPT ![f] = "nil"]
    /\ UNCHANGED hit
    /\ UNCHANGED nonUdpVars

\* replyLoop returns: the deferred respConn.Close(), then the deferred function:
\* Lock, delete(connTrackTable, ctKey), Unlock, proxyConn.Close(). Close on a
\* nil respConn either returns an error or panics, after which the other
\* deferred function still runs and the process ends.
ReplyReap(f, nilPanics) ==
    /\ ~panicked
    /\ rlpc[f] = "reap"
    /\ connTrackLock = "free"
    /\ connTrackTable' = connTrackTable \ {f}
    /\ openConns' = openConns \ {f}
    /\ respConns' = respConns \ {f}
    /\ panicked' = (f \notin respConns /\ nilPanics)
    /\ rlpc' = [rlpc EXCEPT ![f] = "none"]
    /\ idle' = [idle EXCEPT ![f] = 0]
    /\ UNCHANGED <<inbox, narrived, lpc, cur, connTrackLock, forwarded, dropped,
                   listenerClosed, cpc>>
    /\ rlerr' = [rlerr EXCEPT ![f] = "nil"]
    /\ UNCHANGED hit
    /\ UNCHANGED nonUdpVars

\* UDPProxy.Close: proxy.listener.Close()
CloseListener ==
    /\ ~panicked
    /\ cpc = "idle"
    /\ listenerClosed' = TRUE
    /\ cpc' = "lock"
    /\ UNCHANGED <<inbox, narrived, lpc, cur, connTrackTable, connTrackLock, openConns,
                   rlpc, forwarded, dropped>>
    /\ UNCHANGED <<respConns, idle, panicked>>
    /\ UNCHANGED rlerr
    /\ UNCHANGED hit
    /\ UNCHANGED nonUdpVars

\* (a Close that also empties the table)
CloseConns_ClearsTable ==
    /\ ~panicked
    /\ cpc = "lock"
    /\ connTrackLock = "free"
    /\ openConns' = openConns \ connTrackTable
    /\ connTrackTable' = {}
    /\ cpc' = "done"
    /\ UNCHANGED <<inbox, narrived, lpc, cur, connTrackLock, rlpc,
                   forwarded, dropped, listenerClosed>>
    /\ UNCHANGED <<respConns, idle, panicked>>
    /\ UNCHANGED rlerr
    /\ UNCHANGED hit
    /\ UNCHANGED nonUdpVars

\* UDPProxy.Close: under connTrackLock, every tracked connection is closed.
CloseConns ==
    /\ ~panicked
    /\ cpc = "lock"
    /\ connTrackLock = "free"
    /\ openConns' = openConns \ connTrackTable
    /\ cpc' = "done"
    /\ UNCHANGED <<inbox, narrived, lpc, cur, connTrackTable, connTrackLock, rlpc,
                   forwarded, dropped, listenerClosed>>
    /\ UNCHANGED <<respConns, idle, panicked>>
    /\ UNCHANGED rlerr
    /\ UNCHANGED hit
    /\ UNCHANGED nonUdpVars

NextUDP ==
    \/ \E f \in Flows : DatagramArrives(f)
    \/ ListenRecv
    \/ ListenStop
    \/ ListenLock
    \/ \E dbErr \in BOOLEAN : ListenReverseLookup(dbErr)
    \/ \E ok \in BOOLEAN : ListenDialDone(ok)
    \/ ListenUnlock
    \/ ListenWrite
    \/ UdpTick
    \/ \E f \in Flows, ok \in BOOLEAN : ReplyStart(f, ok)
    \/ \E f \in Flows, outcome \in ReplyOutcomes, writeErr \in BOOLEAN :
          ReplyRead(f, outcome, writeErr)
    \/ \E f \in Flows, nilPanics \in BOOLEAN : ReplyReap(f, nilPanics)
    \/ CloseListener
    \/ CloseConns

SpecUDP == InitUDP /\ [][NextUDP]_vars

(***************************************************************************)
(* Claims about the UDP forwarder                                          *)
(***************************************************************************)
\* A datagram of a flow other than the one listen is working on is queued.
OtherFlowQueued == \E i \in DOMAIN inbox : inbox[i].flow # cur.flow

\* C10: while the reverse lookup or the dial for the datagram of a new flow is
\* pending, the receive loop is able to receive a queued datagram of another
\* flow.
C10_RecvNotBlocked ==
    (lpc \in {"lookup", "dial"} /\ ~listenerClosed /\ OtherFlowQueued)
    => ENABLED ListenRecv

\* Case of C10: the dial for a new flow is pending, a datagram of another flow,
\* which already has its upstream connection, is queued.
C10_Witness ==
    /\ lpc = "dial"
    /\ \E i \in DOMAIN inbox :
          inbox[i].flow # cur.flow /\ inbox[i].flow \in connTrackTable \cap openConns


\* C11: the conntrack mutex is held only across operations on the hash map:
\* while listen is in the reverse lookup (a database query) or in the upstream
\* dial, nobody holds it.
C11_LockOnlyAcrossMapOps ==
    lpc \in {"lookup", "dial"} => connTrackLock = "free"

\* Case of C11: listen is inside DialContext for a new flow while a reply loop
\* waits for the mutex to delete its entry.
C11_Witness ==
    /\ lpc = "dial" /\ connTrackLock = "listen"
    /\ \E f \in Flows : rlpc[f] = "reap"

(***************************************************************************)
(* Claims about the sweep of the mapping store                             *)
(***************************************************************************)
\* Caller p runs purgeExpired in this step.
Sweeps(p) == mpc[p] = "sweep" /\ mpc'[p] = "loop"

\* C12: under any interleaving of EnsureMapping calls a sweep runs no sooner
\* than cleanupDebounceInterval after the sweep before it, and a call sweeps at
\* most once (after its sweep it is in the insert loop, which it leaves only by
\* returning).
C12_Step ==
    \A p \in Procs :
        /\ Sweeps(p) => now - lastCleanup >= cleanupDebounceInterval
        /\ mpc[p] \in {"loop", "done"} => mpc'[p] # "sweep"

C12_SweepDebounce == [][C12_Step]_vars

\* Case of C12: two callers have both found the sweep due; one has swept just
\* now and the other is about to.
C12_Witness ==
    \E p, q \in Procs :
        /\ p # q
        /\ mpc[p] = "loop" /\ mi[p] = 0
        /\ mpc[q] = "sweep"
        /\ lastCleanup = now


\* In SpecSweep a row was written by a call with ttl = 1 s made at the whole
\* second expire - 1: at least two seconds have passed since.
Aged(r) == now >= TicksPerSec * (r.expire - 1) + 2 * TicksPerSec
\* What ReverseLookup answers in table t for the client and address of row r.
LookupOfRow(t, r) == ReverseLookup(t, r.client_key, ParseAddr(r.mapped_addr).addr, FALSE)
\* Caller p completes cleanup() in this step, with or without a sweep.
CleanupDone(p) == (mpc[p] = "idle" /\ mpc'[p] = "loop") \/ Sweeps(p)

\* C13 as stated: once an address allocated with ttl = 1 s is two seconds old
\* and an EnsureMapping call for another key has been made (its cleanup() has
\* run), ReverseLookup does not find the address.
C13_Stated ==
    \A p \in Procs :
        CleanupDone(p) =>
            \A r \in table :
                (Aged(r) /\ <<r.client_key, r.domain_name>> #
                            <<margs'[p].clientKey, margs'[p].domainName>>)
                => LookupOfRow(table', r) = {NotFound}

C13_AnyCallPurges == [][C13_Stated]_vars

\* C13 amended: a call made more than cleanupDebounceInterval after the last
\* sweep does sweep, and once that sweep's DELETE has succeeded ReverseLookup no
\* longer finds an address allocated with ttl = 1 s two seconds ago or earlier.
C13_Amended ==
    \A p \in Procs :
        /\ (mpc[p] = "idle" /\ mpc'[p] # "idle" /\ now - lastCleanup > cleanupDebounceInterval)
           => mpc'[p] = "sweep"
        /\ CleanupSweep(p, FALSE) =>
              \A r \in table : Aged(r) => LookupOfRow(table', r) = {NotFound}

C13_DueSweepPurges == [][C13_Amended]_vars

\* Case of C13: a call for another key is about to sweep a table that holds an
\* address allocated two seconds ago.
C13_Witness ==
    \E p \in Procs :
        /\ mpc[p] = "sweep"
        /\ \E r \in table :
              /\ Aged(r)
              /\ <<r.client_key, r.domain_name>> # <<margs[p].clientKey, margs[p].domainName>>
              /\ LookupOfRow(table, r) = {Found(r.domain_name)}


(***************************************************************************)
(* Claims about the reply loop of the UDP forwarder                        *)
(***************************************************************************)
\* The read deadline of the reply loop of flow f has expired.
DeadlineExpired(f) == rlpc[f] = "read" /\ Elapsed(f) >= UDPConnTrackTimeout

\* C14, what can happen: once the connection of an entry has produced nothing
\* until its read deadline, Read can return the timeout, and a loop that has
\* ended can reap as soon as the mutex is free.
C14_CanReap ==
    \A f \in Flows :
        /\ (~panicked /\ DeadlineExpired(f) /\ f \in openConns)
           => ENABLED ReplyRead(f, "timeout", FALSE)
        /\ (~panicked /\ rlpc[f] = "reap" /\ connTrackLock = "free")
           => ENABLED ReplyReap(f, FALSE)

\* C14, what does happen: after the deadline the loop stays in Read without a
\* new deadline or ends; a loop that has ended only reaps; and the reaping
\* removes the entry and closes the upstream connection and the reply socket.
C14_Step ==
    \A f \in Flows :
        /\ DeadlineExpired(f) => (rlpc'[f] \in {"read", "reap"} /\ idle'[f] >= idle[f])
        /\ rlpc[f] = "reap" => rlpc'[f] \in {"reap", "none"}
        /\ (rlpc[f] = "reap" /\ rlpc'[f] = "none")
           => (f \notin connTrackTable' /\ f \notin openConns' /\ f \notin respConns')

C14_IdleReap == [] C14_CanReap /\ [][C14_Step]_vars

\* Case of C14: the deadline of a flow ran out 90 s after it was set, its loop
\* has ended and is about to reap the entry.
C14_Witness ==
    \E f \in Flows :
        /\ rlpc[f] = "reap"
        /\ Elapsed(f) >= UDPConnTrackTimeout
        /\ f \in connTrackTable \cap openConns \cap respConns
        /\ connTrackLock = "free"


(***************************************************************************)
(* TCP forwarder: tproxy/tcp.go                                            *)
(***************************************************************************)
\* The bytes a side sends: the n-th byte of side x is <<x, n>>.
Stream(x, n) == [i \in 1..n |-> <<x, i>>]

\* (a read that loses the last byte of what it took)
Take_DropLast(q, k) == SubSeq(q, 1, k - 1)

\* One Read of io.Copy takes the first k bytes off the socket ...
Take(q, k) == SubSeq(q, 1, k)
\* ... and leaves the rest.
Rest(q, k) == SubSeq(q, k + 1, Len(q))

\* The store the forwarder looks up: as for the UDP forwarder.
InitTCP ==
    /\ table = SeededTable /\ lastCleanup = 0 /\ now = StartTime
    /\ mpc = [p \in Procs |-> "idle"] /\ margs = [p \in Procs |-> NoArgs]
    /\ mi = [p \in Procs |-> 0] /\ mres = [p \in Procs |-> NoResult]
    /\ prev = NoPrev /\ ncalls = 0
    /\ InitFCIdle
    /\ InitUDPIdle
    /\ InitTCPIdle /\ InitDNSIdle /\ InitPoolIdle

\* The client of every TCP connection, and the addresses it connects to: two
\* mapped for it and one that is not.
TcpClient == "c1"
TcpDsts == {V4(1), Mapped(2), V4(3)}
\* The ports the client connects from and to.
ClientPorts == {50000}
TcpPorts == {80, 443}

\* listen: Accept returns a connection whose local address is dst:lport and
\* whose remote address has port rport; go handle.
TcpAccept(dst, rport, lport) ==
    /\ hpc = "idle"
    /\ hpc' = "lookup"
    /\ tdst' = dst
    /\ leftState' = "open"
    /\ UNCHANGED <<rightKind, rightState, fwd, cSent, cFin, uSent, uFin, c2p, u2p,
                   upRecv, clRecv>>
    /\ tports' = [r |-> rport, l |-> lport]
    /\ UNCHANGED tdials
    /\ UNCHANGED nonTcpVars

\* strconv.FormatUint(uint64(port), 10)
FormatUint(n) == ToString(n)
\* (the address joined with the port of the remote address)
DialAddress_RemotePort(domainName) == domainName \o ":" \o FormatUint(tports.r)

\* dialAddress := net.JoinHostPort(domainName, FormatUint(lAddr.Port())), for a
\* host without a colon.
DialAddress(domainName) == domainName \o ":" \o FormatUint(tports.l)

\* handle: ReverseLookup(rAddr, lAddr) and its three error returns; else the
\* call of DialContext(dialCtx, "tcp", dialAddress).
HandleLookup(dbErr) ==
    /\ hpc = "lookup"
    /\ \E res \in ReverseLookup(table, TcpClient, tdst, dbErr) :
          IF res.err # "nil" \/ ~res.ok \/ res.domainName = ""
          THEN hpc' = "return" /\ tdials' = tdials
          ELSE hpc' = "dial" /\ tdials' = Append(tdials, DialAddress(res.domainName))
    /\ UNCHANGED <<tdst, rightKind, leftState, rightState, fwd, cSent, cFin, uSent, uFin,
                   c2p, u2p, upRecv, clRecv>>
    /\ UNCHANGED tports
    /\ UNCHANGED nonTcpVars

\* handle: DialContext returns; on success proxyStream starts both directions.
\* kind: whether the connection the dialer returned has CloseWrite.
HandleDialDone(ok, kind) ==
    /\ hpc = "dial"
    /\ IF ok
       THEN /\ hpc' = "splice"
            /\ rightKind' = kind
            /\ rightState' = "open"
            /\ fwd' = [d \in Dirs |-> "copy"]
       ELSE /\ hpc' = "return"
            /\ UNCHANGED <<rightKind, rightState, fwd>>
    /\ UNCHANGED <<tdst, leftState, cSent, cFin, uSent, uFin, c2p, u2p, upRecv, clRecv>>
    /\ UNCHANGED <<tports, tdials>>
    /\ UNCHANGED nonTcpVars

\* The client sends a byte, or closes its sending direction.
ClientSend ==
    /\ leftState \in {"open", "wclosed"}
    /\ ~cFin
    /\ cSent < MaxBytes
    /\ cSent' = cSent + 1
    /\ c2p' = Append(c2p, <<"c", cSent + 1>>)
    /\ UNCHANGED <<hpc, tdst, rightKind, leftState, rightState, fwd, cFin, uSent, uFin,
                   u2p, upRecv, clRecv>>
    /\ UNCHANGED <<tports, tdials>>
    /\ UNCHANGED nonTcpVars

ClientFin ==
    /\ leftState \in {"open", "wclosed"}
    /\ ~cFin
    /\ cFin' = TRUE
    /\ UNCHANGED <<hpc, tdst, rightKind, leftState, rightState, fwd, cSent, uSent, uFin,
                   c2p, u2p, upRecv, clRecv>>
    /\ UNCHANGED <<tports, tdials>>
    /\ UNCHANGED nonTcpVars

\* The upstream sends a byte, or closes its sending direction.
UpSend ==
    /\ rightState \in {"open", "wclosed"}
    /\ ~uFin
    /\ uSent < MaxBytes
    /\ uSent' = uSent + 1
    /\ u2p' = Append(u2p, <<"u", uSent + 1>>)
    /\ UNCHANGED <<hpc, tdst, rightKind, leftState, rightState, fwd, cSent, cFin, uFin,
                   c2p, upRecv, clRecv>>
    /\ UNCHANGED <<tports, tdials>>
    /\ UNCHANGED nonTcpVars

UpFin ==
    /\ rightState \in {"open", "wclosed"}
    /\ ~uFin
    /\ uFin' = TRUE
    /\ UNCHANGED <<hpc, tdst, rightKind, leftState, rightState, fwd, cSent, cFin, uSent,
                   c2p, u2p, upRecv, clRecv>>
    /\ UNCHANGED <<tports, tdials>>
    /\ UNCHANGED nonTcpVars


\* What unidirForward(from, to) of direction d reads from and writes to.
SrcBuf(d)   == IF d = "lr" THEN c2p ELSE u2p
SrcFin(d)   == IF d = "lr" THEN cFin ELSE uFin
SrcState(d) == IF d = "lr" THEN leftState ELSE rightState
DstState(d) == IF d = "lr" THEN rightState ELSE leftState

\* io.Copy(to, from): one Read of k bytes and the Write of them. A Write to a
\* connection that is no longer open for writing fails and ends the copy.
FwdCopy(d, k) ==
    /\ hpc = "splice"
    /\ fwd[d] = "copy"
    /\ SrcState(d) # "closed"
    /\ k \in 1..Len(SrcBuf(d))
    /\ IF d = "lr"
       THEN /\ c2p' = Rest(c2p, k)
            /\ upRecv' = IF DstState(d) = "open" THEN upRecv \o Take(c2p, k) ELSE upRecv
            /\ UNCHANGED <<u2p, clRecv>>
       ELSE /\ u2p' = Rest(u2p, k)
            /\ clRecv' = IF DstState(d) = "open" THEN clRecv \o Take(u2p, k) ELSE clRecv
            /\ UNCHANGED <<c2p, upRecv>>
    /\ fwd' = IF DstState(d) = "open" THEN fwd ELSE [fwd EXCEPT ![d] = "shutdown"]
    /\ UNCHANGED <<hpc, tdst, rightKind, leftState, rightState, cSent, cFin, uSent, uFin>>
    /\ UNCHANGED <<tports, tdials>>
    /\ UNCHANGED nonTcpVars

\* io.Copy returns: Read met EOF (the peer closed its sending direction and
\* everything it sent was read), or failed because the connection was closed
\* on this side.
FwdEnd(d) ==
    /\ hpc = "splice"
    /\ fwd[d] = "copy"
    /\ (SrcBuf(d) = <<>> /\ SrcFin(d)) \/ SrcState(d) = "closed"
    /\ fwd' = [fwd EXCEPT ![d] = "shutdown"]
    /\ UNCHANGED <<hpc, tdst, rightKind, leftState, rightState, cSent, cFin, uSent, uFin,
                   c2p, u2p, upRecv, clRecv>>
    /\ UNCHANGED <<tports, tdials>>
    /\ UNCHANGED nonTcpVars

\* The connections a dialer may return: a *net.TCPConn (an EOFSender), a
\* wrapper with Raw() around one, a wrapper with Raw() around a connection with
\* neither method, and a connection with neither method.
ConnKinds == {"tcp", "wrapped tcp", "wrapped plain", "plain"}
\* c.Raw()
Raw(kind) == IF kind = "wrapped tcp" THEN "tcp" ELSE "plain"

\* (a shutdown that closes whatever the connection is)
shutdownWrite_AlwaysClose(kind) == "Close"

\* shutdownWrite(conn): the method it ends up calling.
RECURSIVE shutdownWrite(_)
shutdownWrite(kind) ==
    CASE kind = "tcp" -> "CloseWrite"
      [] kind \in {"wrapped tcp", "wrapped plain"} -> shutdownWrite(Raw(kind))
      [] OTHER -> "Close"

\* shutdownWrite(to): CloseWrite if the connection has it (the accepted
\* connection does), else Close.
FwdShutdown(d) ==
    /\ hpc = "splice"
    /\ fwd[d] = "shutdown"
    /\ IF d = "lr"
       THEN /\ rightState' = IF shutdownWrite(rightKind) = "CloseWrite"
                             THEN (IF rightState = "open" THEN "wclosed" ELSE rightState)
                             ELSE "closed"
            /\ UNCHANGED leftState
       ELSE /\ leftState' = IF shutdownWrite("tcp") = "CloseWrite"
                            THEN (IF leftState = "open" THEN "wclosed" ELSE leftState)
                            ELSE "closed"
            /\ UNCHANGED rightState
    /\ fwd' = [fwd EXCEPT ![d] = "done"]
    /\ UNCHANGED <<hpc, tdst, rightKind, cSent, cFin, uSent, uFin, c2p, u2p, upRecv, clRecv>>
    /\ UNCHANGED <<tports, tdials>>
    /\ UNCHANGED nonTcpVars

\* handle returns, after wg.Wait() or after a failed lookup or dial: the
\* deferred upstreamConn.Close() and conn.Close().
HandleReturn ==
    /\ \/ hpc = "return"
       \/ hpc = "splice" /\ \A d \in Dirs : fwd[d] = "done"
    /\ hpc' = "done"
    /\ leftState' = "closed"
    /\ rightState' = IF rightState = "none" THEN "none" ELSE "closed"
    /\ UNCHANGED <<tdst, rightKind, fwd, cSent, cFin, uSent, uFin, c2p, u2p, upRecv, clRecv>>
    /\ UNCHANGED <<tports, tdials>>
    /\ UNCHANGED nonTcpVars

\* The steps of the proxy on a spliced flow.
SpliceStep ==
    \/ \E d \in Dirs, k \in 1..MaxBytes : FwdCopy(d, k)
    \/ \E d \in Dirs : FwdEnd(d)
    \/ \E d \in Dirs : FwdShutdown(d)
    \/ HandleReturn

NextTCP ==
    \/ \E dst \in TcpDsts, rport \in ClientPorts, lport \in TcpPorts : TcpAccept(dst, rport, lport)
    \/ \E dbErr \in BOOLEAN : HandleLookup(dbErr)
    \/ \E ok \in BOOLEAN, kind \in ConnKinds : HandleDialDone(ok, kind)
    \/ ClientSend
    \/ ClientFin
    \/ UpSend
    \/ UpFin
    \/ \E d \in Dirs, k \in 1..MaxBytes : FwdCopy(d, k)
    \/ \E d \in Dirs : FwdEnd(d)
    \/ \E d \in Dirs : FwdShutdown(d)
    \/ HandleReturn

SpecTCP == InitTCP /\ [][NextTCP]_vars

(***************************************************************************)
(* Claims about the TCP forwarder                                          *)
(***************************************************************************)
Spliced == rightKind # "none"
\* Both directions have delivered everything that was sent.
AllDelivered == upRecv = Stream("c", cSent) /\ clRecv = Stream("u", uSent)
\* What was delivered is the beginning of what was sent, unchanged and in order.
InOrder ==
    /\ Len(upRecv) <= cSent /\ upRecv = Stream("c", Len(upRecv))
    /\ Len(clRecv) <= uSent /\ clRecv = Stream("u", Len(clRecv))
\* The flow has closed cleanly: both forwarding tasks are over, both sockets closed.
ClosedCleanly ==
    /\ hpc = "done"
    /\ \A d \in Dirs : fwd[d] = "done"
    /\ leftState = "closed" /\ rightState = "closed"

\* C15 as stated: a spliced flow delivers both byte sequences in order, has
\* delivered them in full when it is over, and once either side has closed its
\* sending direction the proxy goes on by itself until the flow has closed
\* cleanly.
C15_SpliceAsStated ==
    Spliced =>
        /\ InOrder
        /\ hpc = "done" => AllDelivered
        /\ (cFin \/ uFin) => (ClosedCleanly \/ ENABLED SpliceStep)

\* C15 amended: a spliced flow delivers both byte sequences in order; with an
\* upstream connection that has CloseWrite it has delivered them in full when it
\* is over; once both sides have closed their sending direction the proxy goes
\* on by itself until the flow has closed cleanly; and it is not over before.
C15_SpliceComplete ==
    Spliced =>
        /\ InOrder
        /\ (hpc = "done" /\ rightKind = "tcp") => AllDelivered
        /\ (cFin /\ uFin) => (ClosedCleanly \/ ENABLED SpliceStep)
        /\ hpc = "done" => ClosedCleanly
        /\ (hpc = "done" /\ rightKind = "tcp") => (cFin /\ uFin)

\* Case of C15: each side has sent MaxBytes bytes and closed its sending
\* direction over a connection with CloseWrite, and the flow has closed cleanly
\* with everything delivered.
C15_Witness ==
    /\ rightKind = "tcp"
    /\ ClosedCleanly
    /\ cSent = MaxBytes /\ uSent = MaxBytes
    /\ AllDelivered

(***************************************************************************)
(* The DNS handler (dnsproxy/dnsproxy.go).  A query name is the sequence   *)
(* of its characters, so that lower-casing and the removal of one trailing *)
(* dot are computed and not assumed.  One handler runs at a time; it is    *)
(* the caller DnsProc of EnsureMapping.                                    *)
(***************************************************************************)
DnsProc == "p1"
\* Question names: two spellings of one domain, and a name ending in two dots.
QNames == {<<"A", "b", ".">>, <<"a", "b">>, <<"c", ".", ".">>}
QTypes == {"A", "AAAA", "TXT"}
\* ctx.Addr as netip.ParseAddrPort sees it: an ip:port text, or text it rejects.
SrcAddrs == {[ok |-> TRUE, ip |-> "c1"], [ok |-> FALSE, ip |-> ""]}
\* Configured TTLs, in seconds. DNSProxy.ttl is a uint32; TtlBits is the width
\* it is modelled with.
TtlBits == 4
MaxTTL == (2 ^ TtlBits) - 1
DnsTTLs == {0, 1, MaxTTL}

\* strings.ToLower
LowerChar(ch) ==
    CASE ch = "A" -> "a"
      [] ch = "B" -> "b"
      [] ch = "C" -> "c"
      [] OTHER    -> ch
ToLower(s) == [i \in 1..Len(s) |-> LowerChar(s[i])]
\* strings.TrimSuffix: removes suffix once, if s ends with it
TrimSuffix(s, suffix) ==
    IF Len(s) >= Len(suffix) /\ SubSeq(s, Len(s) - Len(suffix) + 1, Len(s)) = suffix
    THEN SubSeq(s, 1, Len(s) - Len(suffix))
    ELSE s
\* domainName := strings.TrimSuffix(strings.ToLower(qName), ".")
DomainNameOf_KeepCase(qName) == TrimSuffix(qName, <<".">>)
DomainNameOf(qName) == TrimSuffix(ToLower(qName), <<".">>)
\* clientKey: "<bogus>" unless ctx.Addr parses
ClientKeyOf(src) == IF src.ok THEN src.ip ELSE "<bogus>"
\* time.Duration(d.ttl+1)*time.Second, the sum taken in the width of d.ttl
MappingTTL(t) == ((t + 1) % (2 ^ TtlBits)) * TtlUnitsPerSec
\* Addr.AsSlice(): 4 bytes of an IPv4 address, 16 of an IPv6 one, nil for the
\* zero Addr
AsSlice(a) ==
    CASE a.z = "4"    -> <<4, a.v>>
      [] a.z = "4in6" -> <<16, a.v>>
      [] OTHER        -> <<>>
\* &dns.A{Hdr: hdr, A: answerAddress.AsSlice()}
ARecord(qName, qType, ttl, a) ==
    [name |-> qName, rrtype |-> qType, class |-> "IN", ttl |-> ttl, a |-> AsSlice(a)]

\* Queries one run of the handler model serves.
MaxQueries == 2
\* A store left by an earlier run of the proxy in which the client "c1" holds
\* every address of the pool, under names QNames does not ask for and with an
\* expire beyond the clock's range.
PoolFullTable ==
    {Row("c1", <<"x">>, AddrString(V4(1)), Unix(MaxTime) + 1),
     Row("c1", <<"y">>, AddrString(V4(2)), Unix(MaxTime) + 1)}

\* The store is empty or as the earlier run left it, and the proxy was started
\* with one of the TTLs.
InitDNS ==
    /\ table \in {{}, PoolFullTable} /\ lastCleanup = 0 /\ now = StartTime
    /\ mpc = [p \in Procs |-> "idle"] /\ margs = [p \in Procs |-> NoArgs]
    /\ mi = [p \in Procs |-> 0] /\ mres = [p \in Procs |-> NoResult]
    /\ prev = NoPrev /\ ncalls = 0
    /\ InitFCIdle /\ InitUDPIdle /\ InitTCPIdle /\ InitPoolIdle
    /\ dttl \in DnsTTLs
    /\ dpc = "idle" /\ dq = NoQuery /\ dresp = NoResponse

\* requestHandler is entered with a query: A and AAAA go to rewrite, every
\* other type to p.Resolve.
DnsQuery(qName, qType, src) ==
    /\ dpc = "idle"
    /\ mpc[DnsProc] = "idle"
    /\ qType \in {"A", "AAAA"} => ncalls < MaxQueries
    /\ dq' = [qname |-> qName, qtype |-> qType, src |-> src]
    /\ UNCHANGED dresp
    /\ dpc' = IF qType \in {"A", "AAAA"} THEN "rewrite" ELSE "resolve"
    /\ UNCHANGED dttl
    /\ UNCHANGED nonDnsVars

\* rewrite: normalise the name, derive the client key, call EnsureMapping.
DnsEnsureMapping ==
    /\ dpc = "rewrite"
    /\ EnsureMappingCall(DnsProc, <<ClientKeyOf(dq.src), DomainNameOf(dq.qname)>>,
                         MappingTTL(dttl))

\* rewrite after EnsureMapping returned: an error leaves ctx.Res unset and is
\* returned wrapped; otherwise the reply is built, with an A record only for
\* an A query.
DnsRespond ==
    /\ dpc = "rewrite"
    /\ mpc[DnsProc] = "done"
    /\ dresp' = IF mres[DnsProc].err # "nil"
                THEN [err |-> "rewrite error", rcode |-> "none", answer |-> <<>>]
                ELSE [err |-> "nil", rcode |-> "NoError",
                      answer |-> IF dq.qtype = "A"
                                 THEN <<ARecord(dq.qname, dq.qtype, dttl, mres[DnsProc].addr)>>
                                 ELSE <<>>]
    /\ dpc' = "ret"
    /\ UNCHANGED <<dttl, dq>>
    /\ UNCHANGED nonDnsVars

\* p.Resolve(ctx): the query goes to the upstream resolver.
DnsResolve(upErr) ==
    /\ dpc = "resolve"
    /\ dresp' = [err |-> IF upErr THEN "resolve error" ELSE "nil",
                 rcode |-> "upstream", answer |-> <<>>]
    /\ dpc' = "ret"
    /\ UNCHANGED <<dttl, dq>>
    /\ UNCHANGED nonDnsVars

\* requestHandler returns; the result of EnsureMapping is dropped with its frame.
DnsReturn ==
    /\ dpc = "ret"
    /\ mpc[DnsProc] = "idle"
    /\ dpc' = "idle"
    /\ dq' = NoQuery
    /\ dresp' = NoResponse
    /\ UNCHANGED dttl
    /\ UNCHANGED nonDnsVars

NextDNS ==
    \/ TickSecond
    \/ \E qName \in QNames, qType \in QTypes, src \in SrcAddrs : DnsQuery(qName, qType, src)
    \/ DnsEnsureMapping
    \/ \E dbErr \in BOOLEAN : CleanupSweep(DnsProc, dbErr)
    \/ \E cand \in PoolAddrs, dbErr \in BOOLEAN : EnsureMappingAttempt(DnsProc, cand, dbErr)
    \/ EnsureMappingExhausted(DnsProc)
    \/ DnsRespond
    \/ \E upErr \in BOOLEAN : DnsResolve(upErr)
    \/ dpc = "ret" /\ EnsureMappingReturn(DnsProc, FALSE)
    \/ DnsReturn
SpecDNS == InitDNS /\ [][NextDNS]_vars

(***************************************************************************)
(* Claims about the DNS handler                                            *)
(***************************************************************************)
\* The domain a question name stands for, written out: its lower-case
\* spelling without the trailing dot.
ExpectedDomain(qName) ==
    CASE qName = <<"A", "b", ".">> -> <<"a", "b">>
      [] qName = <<"a", "b">>      -> <<"a", "b">>
      [] qName = <<"c", ".", ".">> -> <<"c", ".">>
\* rewrite has built its result for an A query and EnsureMapping gave an address.
AnsweredA ==
    /\ dpc = "ret" /\ mpc[DnsProc] = "done"
    /\ dq.qtype = "A" /\ mres[DnsProc].err = "nil"
\* This was the first call on a store that was empty when the proxy started
\* (the rows of PoolFullTable outlive the clock's range).
StartedEmpty == ncalls = 1 /\ table \cap PoolFullTable = {}

\* C16: for an A query for qname from client c the handler calls
\* EnsureMapping(c, lower-case qname without the trailing dot, (ttl+1) s) - for
\* every ttl below the largest, whose successor the width of ttl cannot hold
\* (C24) - and, the call having returned an address, answers NoError with
\* exactly one A record: name qname, class IN, TTL the configured ttl, the
\* returned address, which is an address of the pool's range. If the store was
\* empty it then holds exactly one row, the one for (c, domain).
C16_ASynthesis ==
    AnsweredA =>
        /\ dq.src.ok => margs[DnsProc].clientKey = dq.src.ip
        /\ margs[DnsProc].domainName = ExpectedDomain(dq.qname)
        /\ dttl < MaxTTL => margs[DnsProc].ttl = (dttl + 1) * TtlUnitsPerSec
        /\ dresp.err = "nil" /\ dresp.rcode = "NoError"
        /\ Len(dresp.answer) = 1
        /\ dresp.answer[1].name = dq.qname
        /\ dresp.answer[1].rrtype = "A"
        /\ dresp.answer[1].class = "IN"
        /\ dresp.answer[1].ttl = dttl
        /\ mres[DnsProc].addr \in PoolAddrs
        /\ dresp.answer[1].a = <<4, mres[DnsProc].addr.v>>
        /\ StartedEmpty =>
              table = {Row(margs[DnsProc].clientKey, ExpectedDomain(dq.qname),
                           AddrString(mres[DnsProc].addr), mres[DnsProc].expire)}
C16_Witness ==
    /\ AnsweredA /\ StartedEmpty
    /\ dq.qname = <<"A", "b", ".">> /\ dq.src.ok
    /\ Cardinality(table) = 1

\* C17: an AAAA query is answered NoError with no answer records, whatever the
\* mapping store does.
AnsweredAAAA == dpc = "ret" /\ dq.qtype = "AAAA"
C17_AAAAEmpty ==
    AnsweredAAAA => dresp = [err |-> "nil", rcode |-> "NoError", answer |-> <<>>]
C17_Witness ==
    /\ AnsweredAAAA
    /\ mres[DnsProc].err = "ErrTooManyAttempts"
    /\ dresp.err = "rewrite error"

(***************************************************************************)
(* Claims about closing a future connection                                *)
(***************************************************************************)
\* Close has been called and has not returned.
ClosePending == rpc = "wait" /\ rop = "Close"
\* Close has returned nil.
CloseReturned == rpc = "done" /\ rop = "Close" /\ rret = "nil"

\* C18: Close does not wait for the dial - a Close that has been called can
\* return at once, whether or not the dial has resolved - and a Close that
\* returns after a successful dial has closed the underlying socket.
C18_CloseNeverWaits ==
    /\ ClosePending => ENABLED ReaderResolve
    /\ (CloseReturned /\ conn = "sock") => sockClosed
C18_Witness ==
    /\ ClosePending
    /\ bgpc = "dial" /\ connCh = "open"
    /\ ~ ENABLED ReaderResolve

(***************************************************************************)
(* Claims about shutdown                                                   *)
(***************************************************************************)
\* UDPProxy.Close has returned and the receive loop has left its loop.
UdpShutDown == cpc = "done" /\ lpc = "stopped"
\* The tracked upstream connections that are still open.
TrackedOpen == connTrackTable \cap openConns

\* C19 (UDP part): once Close has returned and the receive loop has exited,
\* every upstream connection that is tracked is closed, the one made for a
\* datagram received before Close ran included.
C19_AllClosedAfterClose == UdpShutDown => TrackedOpen = {}
C19_Witness ==
    /\ UdpShutDown
    /\ \E f \in TrackedOpen : rlpc[f] = "read" /\ f \in respConns

(***************************************************************************)
(* The address pool (package pool).  An IPv4 address is a uint32; the      *)
(* model keeps AddrBits of it, and every sum and difference is taken       *)
(* modulo 2^AddrBits as the code takes it modulo 2^32.                     *)
(***************************************************************************)
AddrBits == 3
AddrMod == 2 ^ AddrBits
\* The endpoints pool.New is given: every IPv4 address, and one that is not IPv4.
PoolEnds == {V4(n) : n \in 0..(AddrMod - 1)} \cup {Mapped(1)}

\* Addr.Is4
Is4(a) == a.z = "4"
\* Addr.Less / Compare: by bit length first, then by value
Less_OrEqual(a, b) ==
    \/ a.z = "4" /\ b.z = "4in6"
    \/ a.z = b.z /\ a.v <= b.v
Less(a, b) ==
    \/ a.z = "4" /\ b.z = "4in6"
    \/ a.z = b.z /\ a.v < b.v
\* size: binary.BigEndian.Uint32(end.AsSlice()) - base + 1, in uint32
PoolSize_OneMore(s, e) == (e - s + 2) % AddrMod
PoolSize(s, e) == (e - s + 1) % AddrMod
\* int(p.size): the value itself where int is wider than uint32, else its
\* two's-complement reading
IntOf(u, wide) == IF wide \/ u < AddrMod \div 2 THEN u ELSE u - AddrMod

\* No pool yet: New is about to be called with some start and end, on some build.
InitPool ==
    /\ InitMap /\ InitFCIdle /\ InitUDPIdle /\ InitTCPIdle /\ InitDNSIdle
    /\ pargs \in [start : PoolEnds, end : PoolEnds]
    /\ pwide \in BOOLEAN
    /\ pool = NoPool
    /\ pdraw = NoDraw

\* pool.New(start, end)
New ==
    /\ pool = NoPool
    /\ pool' = IF ~Is4(pargs.start) \/ ~Is4(pargs.end)
               THEN [err |-> "ErrUnsupportedAddressFamily", base |-> 0, size |-> 0]
               ELSE IF Less(pargs.end, pargs.start)
               THEN [err |-> "ErrBadOrder", base |-> 0, size |-> 0]
               ELSE [err |-> "nil", base |-> pargs.start.v,
                     size |-> PoolSize(pargs.start.v, pargs.end.v)]
    /\ UNCHANGED <<pargs, pwide, pdraw>>
    /\ UNCHANGED nonPoolVars

\* GetRandom: rng.Intn(n) panics unless n > 0 and otherwise returns some r
\* in [0, n); the address is base + uint32(r).
GetRandom(r) ==
    /\ pool.err = "nil"
    /\ ~pdraw.panic
    /\ LET n == IntOf(pool.size, pwide)
       IN  IF n <= 0
           THEN /\ r = 0
                /\ pdraw' = [ok |-> FALSE, panic |-> TRUE, addr |-> ZeroAddr]
           ELSE /\ r < n
                /\ pdraw' = [ok |-> TRUE, panic |-> FALSE,
                             addr |-> V4((pool.base + r) % AddrMod)]
    /\ UNCHANGED <<pargs, pwide, pool>>
    /\ UNCHANGED nonPoolVars

NextPool ==
    \/ New
    \/ \E r \in 0..(AddrMod - 1) : GetRandom(r)
SpecPool == InitPool /\ [][NextPool]_vars

\* C20: every address GetRandom returns from a pool constructed over [s, e]
\* is an IPv4 address with s <= address <= e, whatever the random source draws
\* and however many draws came before.
C20_PoolRange ==
    pdraw.ok =>
        /\ Is4(pdraw.addr)
        /\ pargs.start.v <= pdraw.addr.v
        /\ pdraw.addr.v <= pargs.end.v
C20_Witness ==
    /\ pdraw.ok
    /\ pargs.start.v > 0
    /\ pargs.start.v < pargs.end.v
    /\ pdraw.addr = pargs.end

\* C21: New fails with ErrUnsupportedAddressFamily if either endpoint is not
\* IPv4, fails with ErrBadOrder if both are IPv4 and end < start, and succeeds
\* in every other case, start = end included.
Constructed == pool # NoPool
C21_NewErrors ==
    Constructed =>
        pool.err = IF pargs.start.z # "4" \/ pargs.end.z # "4"
                   THEN "ErrUnsupportedAddressFamily"
                   ELSE IF pargs.end.v < pargs.start.v
                   THEN "ErrBadOrder"
                   ELSE "nil"
C21_Witness ==
    /\ Constructed
    /\ pool.err = "nil"
    /\ pargs.start = pargs.end

(***************************************************************************)
(* Further claims about the mapping store                                  *)
(***************************************************************************)
\* The rows of the pair caller p asks for, as its upsert finds them.
OwnRows(p) == RowsOf(table, margs[p].clientKey, margs[p].domainName)
\* Caller p's upsert, run with candidate cand, returns an address in this step.
UpsertReturns(p, cand) == EnsureMappingAttempt(p, cand, FALSE) /\ ReturnsOk(p)

\* C22 as stated: a row with expire < now counts as absent, so a call that
\* finds only such a row for its pair returns the address it has just drawn
\* and not the row's.
C22_Stated ==
    \A p \in Procs, cand \in PoolAddrs :
        (UpsertReturns(p, cand) /\ \A r \in OwnRows(p) : r.expire < Unix(now))
        => mres'[p].addr = cand
C22_ExpiredIsAbsent == [][C22_Stated]_vars

\* C22 as amended: a call returns the address of the row of its pair whenever
\* that row is in the table, expired or not, and sets its expire anew; only
\* when the pair has no row does it store a new record, with the address drawn.
C22_Amended ==
    \A p \in Procs, cand \in PoolAddrs :
        UpsertReturns(p, cand) =>
            LET e == Unix(now) + RoundSeconds(margs[p].ttl)
            IN  IF OwnRows(p) # {}
                THEN /\ \A r \in OwnRows(p) : ParseAddr(r.mapped_addr).addr = mres'[p].addr
                     /\ table' = (table \ OwnRows(p))
                                   \cup {[r EXCEPT !.expire = e] : r \in OwnRows(p)}
                ELSE /\ mres'[p].addr = cand
                     /\ table' = table \cup {Row(margs[p].clientKey, margs[p].domainName,
                                                 AddrString(cand), e)}
C22_PresentRowWins == [][C22_Amended]_vars
\* A repeated call has returned the address of its earlier binding although the
\* stored expire of that binding had passed when the upsert ran, and no sweep
\* has run since it passed.
C22_Witness ==
    \E p \in Procs :
        /\ mpc[p] = "done" /\ mres[p].err = "nil" /\ prev # NoPrev
        /\ prev.expire < mres[p].expire - RoundSeconds(margs[p].ttl)
        /\ mres[p].addr = prev.addr
        /\ Unix(lastCleanup) <= prev.expire

\* ceil(ttl in seconds), for ttl >= 0
CeilSeconds(ttl) == (ttl + TtlUnitsPerSec - 1) \div TtlUnitsPerSec

\* C23: the expire a successful call stores and reports is the UNIX second of
\* the upsert plus ceil(ttl in seconds), also for a ttl that is not a whole
\* number of seconds.
C23_Step ==
    \A p \in Procs :
        ReturnsOk(p) =>
            /\ mres'[p].expire = Unix(now) + CeilSeconds(margs[p].ttl)
            /\ \A r \in RowsOf(table', margs[p].clientKey, margs[p].domainName) :
                  r.expire = Unix(now) + CeilSeconds(margs[p].ttl)
C23_ExpireIsCeil == [][C23_Step]_vars
\* A call with a ttl of a quarter of a second has returned, and the expire it
\* stored is the second that is still running.
C23_Witness ==
    \E p \in Procs :
        /\ mpc[p] = "done" /\ mres[p].err = "nil"
        /\ margs[p].ttl % TtlUnitsPerSec # 0
        /\ mres[p].expire = Unix(now)
        /\ \E r \in RowsOf(table, margs[p].clientKey, margs[p].domainName) :
              r.expire = Unix(now)

\* rewrite's call of EnsureMapping for an A query returns an address in this step.
AQueryStored == dpc = "rewrite" /\ dq.qtype = "A" /\ ReturnsOk(DnsProc)

\* C24: for every configured TTL T an A query stores the mapping with
\* expire = now + T + 1, which is later than now + T, the second in which the
\* advertised TTL runs out.
C24_Step ==
    AQueryStored =>
        /\ mres'[DnsProc].expire = Unix(now) + dttl + 1
        /\ \A r \in RowsOf(table', margs[DnsProc].clientKey, margs[DnsProc].domainName) :
              r.expire = Unix(now) + dttl + 1 /\ r.expire > Unix(now) + dttl
C24_ExpireOutlivesTTL == [][C24_Step]_vars
\* An A query has been answered under the largest TTL and the row it stored
\* expires in the very second of the query.
C24_Witness ==
    /\ AnsweredA
    /\ dttl = MaxTTL
    /\ dresp.answer[1].ttl = MaxTTL
    /\ \E r \in RowsOf(table, margs[DnsProc].clientKey, margs[DnsProc].domainName) :
          r.expire <= Unix(now)

(***************************************************************************)
(* Further claims about the address pool                                   *)
(***************************************************************************)
\* C25: for every pair of IPv4 endpoints with start <= end, the full range
\* included, the size the pool keeps is at least 1, and no GetRandom fails.
C25_SizeAtLeastOne ==
    (Constructed /\ pool.err = "nil") => (pool.size >= 1 /\ ~pdraw.panic)
\* The pool over the full range keeps size 0 and a draw from it has panicked,
\* on a build whose int holds every uint32.
C25_Witness ==
    /\ pargs = [start |-> V4(0), end |-> V4(AddrMod - 1)]
    /\ pwide
    /\ pool.err = "nil" /\ pool.size = 0
    /\ pdraw.panic

(***************************************************************************)
(* Further claims about the sweep                                          *)
(***************************************************************************)
\* C26: a sweep leaves every row with expire >= now as it is, whatever its
\* client, adds nothing, and, when its DELETE succeeds, leaves no row with
\* expire < now.
C26_Step ==
    \A p \in Procs :
        /\ Sweeps(p) =>
              /\ \A r \in table : r.expire >= Unix(now) => r \in table'
              /\ table' \subseteq table
        /\ CleanupSweep(p, FALSE) => \A r \in table' : ~(r.expire < Unix(now))
C26_SweepExact == [][C26_Step]_vars
\* A sweep has just run in a repeated call: the row of the earlier call, whose
\* expire had passed, is gone, and a row that expires in this very second is
\* still there.
C26_Witness ==
    \E p \in Procs :
        /\ mpc[p] = "loop" /\ mi[p] = 0 /\ lastCleanup = now
        /\ prev # NoPrev /\ prev.expire < Unix(now)
        /\ RowsOf(table, prev.clientKey, prev.domainName) = {}
        /\ \E r \in table : r.expire = Unix(now)

(***************************************************************************)
(* Further claims about the future connection                              *)
(***************************************************************************)
WasAccepted(b) == \E i \in DOMAIN accepted : accepted[i] = b
\* What the connection was given, the direct writes it refused left out.
Delivered == SelectSeq(upstream, WasAccepted)

\* C27: once the handle is in direct mode (the dial succeeded and doWrites is
\* set), a write goes to the socket itself and returns the socket's result, and
\* at that moment everything buffered earlier has been given to the socket
\* already; the datagrams reach the socket in the order their writes took
\* effect (for the one writer of a flow: the order of its writes), the buffered
\* ones first, also for writes buffered after dial() returned.
C27_Step ==
    \A w \in Writers :
        (wpc[w] = "act" /\ wpc'[w] = "unlock" /\ doWrites)
        => /\ wseen[w] /\ conn = "sock"
           /\ upstream' = Append(upstream, wbuf[w])
           /\ wret'[w] \in {[n |-> Len(wbuf[w]), err |-> "nil"],
                            [n |-> 0, err |-> "write error"]}
           /\ bgpc = "done" /\ backlog = <<>> /\ backlog' = <<>>
           /\ buffered' = buffered
           /\ \A i \in DOMAIN buffered : \E j \in DOMAIN upstream : upstream[j] = buffered[i]
C27_Order ==
    /\ Len(Delivered) <= Len(accepted)
    /\ Delivered = SubSeq(accepted, 1, Len(Delivered))
    /\ bgpc = "done" => Delivered = accepted
    /\ Len(upstream) > Drained => Drained = Len(buffered)
C27_DirectAfterBacklog == []C27_Order /\ [][C27_Step]_vars
\* A datagram was buffered, the dial succeeded and the backlog was drained, and
\* a write made afterwards has gone to the socket and is returning success.
C27_Witness ==
    /\ bgpc = "done" /\ Len(buffered) >= 1
    /\ Len(accepted) > Len(buffered) /\ upstream = accepted
    /\ \E w \in Writers : wpc[w] = "unlock" /\ wseen[w] /\ wret[w].err = "nil"
\* How many times datagram b occurs in the sequence q.
Occurrences(q, b) == Cardinality({j \in DOMAIN q : q[j] = b})

\* C28: with Write calls running concurrently with the completion of the dial,
\* the mode is flipped once (doWrites and the closing of the backlog are set in
\* the completion path and never undone), each datagram leaves the backlog
\* once, for the socket, no Write sends on the closed backlog channel, and
\* every Write that returned success is given to the socket exactly once: at
\* any moment it is either queued once or given once, and given once when the
\* completion path has ended.
C28_Step ==
    /\ doWrites => doWrites'
    /\ backlogClosed => backlogClosed'
    /\ doWrites' # doWrites => (bgpc = "flip" /\ muxWriter = "held" /\ muxReaders = {})
    /\ backlogClosed' # backlogClosed => (bgpc = "closeBacklog" /\ doWrites)
    /\ Len(backlog') < Len(backlog) =>
          /\ bgpc = "drain" /\ muxWriter = "held"
          /\ backlog' = Tail(backlog)
          /\ upstream' = Append(upstream, Head(backlog))
    /\ \A w \in Writers :
          (wpc[w] = "act" /\ wpc'[w] = "unlock") =>
              wret'[w].err # "panic: send on closed channel"
C28_Once ==
    /\ \A w \in Writers : (wpc[w] = "act" /\ ~wseen[w]) => (~backlogClosed /\ ~doWrites)
    /\ \A i \in DOMAIN accepted :
          /\ Occurrences(accepted, accepted[i]) = 1
          /\ Occurrences(upstream, accepted[i]) + Occurrences(backlog, accepted[i]) = 1
    /\ bgpc = "done" =>
          /\ doWrites /\ backlogClosed /\ backlog = <<>>
          /\ \A i \in DOMAIN accepted : Occurrences(upstream, accepted[i]) = 1
C28_FlipAndDrainOnce == []C28_Once /\ [][C28_Step]_vars
\* The completion path has ended after draining two buffered datagrams, and
\* both callers are returning from writes that went to the socket.
C28_Witness ==
    /\ bgpc = "done" /\ Len(buffered) >= 2
    /\ \A w \in Writers : wpc[w] = "unlock" /\ wseen[w] /\ wret[w].err = "nil"

\* C29: a Write before the flip that finds room in the backlog queues the bytes
\* of its payload and returns (len(buf), nil) without giving anything to the
\* socket; the queued datagrams stay as they are when a caller's buffer
\* changes, and what the drain gives to the socket is the bytes the payload
\* had when Write was called.
C29_Step ==
    /\ \A w \in Writers :
          /\ (wpc[w] = "act" /\ wpc'[w] = "unlock" /\ ~wseen[w] /\ Len(backlog) < backlogCap)
             => /\ backlog' = Append(backlog, wbuf[w])
                /\ wret'[w] = [n |-> Len(wbuf[w]), err |-> "nil"]
                /\ upstream' = upstream
          /\ wbuf'[w] # wbuf[w] => backlog' = backlog
    /\ Len(backlog') < Len(backlog) =>
          upstream' = Append(upstream, buffered[Drained + 1])
C29_PrivateCopy == [][C29_Step]_vars
\* Two datagrams of different lengths were buffered and have been given to the
\* socket by the drain while a caller's buffer holds a later datagram.
C29_Witness ==
    /\ bgpc = "done" /\ Len(buffered) >= 2
    /\ Len(buffered[1]) # Len(buffered[2])
    /\ SubSeq(upstream, 1, Len(buffered)) = buffered
    /\ \E w \in Writers : wbuf[w] # <<>>
    /\ \A w \in Writers, i \in DOMAIN buffered : wbuf[w] # buffered[i]

(***************************************************************************)
(* The UDP forwarder over a store with a row whose domain name is empty    *)
(***************************************************************************)
\* A mapping table as EnsureMapping leaves it for client c1 after queries for
\* d1 and for the root name ".", whose domain name is stored as "".
EmptyDomainTable ==
    {Row("c1", "d1", AddrString(V4(1)), Unix(StartTime) + 1),
     Row("c1", "",   AddrString(V4(2)), Unix(StartTime) + 1)}

\* NewUDPProxy over that store: flow f1 has a mapping, f2 has one with an empty
\* domain name, f3 has none.
InitUDPMiss ==
    /\ table = EmptyDomainTable /\ lastCleanup = 0 /\ now = StartTime
    /\ mpc = [p \in Procs |-> "idle"] /\ margs = [p \in Procs |-> NoArgs]
    /\ mi = [p \in Procs |-> 0] /\ mres = [p \in Procs |-> NoResult]
    /\ prev = NoPrev /\ ncalls = 0
    /\ InitFCIdle
    /\ InitUDPIdle
    /\ InitTCPIdle /\ InitDNSIdle /\ InitPoolIdle

SpecUDPMiss == InitUDPMiss /\ [][NextUDP]_vars

\* The store has no row with a domain name for the datagrams of flow f.
Miss(f) ==
    \A r \in table :
        (r.client_key = FlowFrom(f) /\ r.mapped_addr = AddrString(Unmap(FlowTo(f))))
        => r.domain_name = ""

\* C30: when listen finds no conntrack entry for a datagram and the reverse
\* lookup fails, finds nothing or finds an empty domain name, the datagram is
\* dropped and listen goes back to receiving with the lock released: no dial is
\* started, no reply loop is started, and the conntrack table and the open
\* connections are as before; a flow without a mapping is never tracked.
C30_Step ==
    \A dbErr \in BOOLEAN :
        (ListenReverseLookup(dbErr) /\ (dbErr \/ Miss(cur.flow)))
        => /\ cur.flow \notin connTrackTable
           /\ dropped' = Append(dropped, cur)
           /\ forwarded' = forwarded
           /\ lpc' = "recv" /\ connTrackLock' = "free"
           /\ connTrackTable' = connTrackTable
           /\ openConns' = openConns
           /\ rlpc' = rlpc /\ respConns' = respConns
C30_NeverTracked ==
    /\ \A f \in Flows :
          Miss(f) => (f \notin connTrackTable /\ f \notin openConns /\ rlpc[f] = "none")
    /\ lpc = "dial" => ~Miss(cur.flow)
    /\ \A i \in DOMAIN forwarded : ~Miss(forwarded[i].flow)
C30_MissDrops == []C30_NeverTracked /\ [][C30_Step]_vars
\* A datagram of the flow without a mapping and one of the flow mapped to an
\* empty domain name have been dropped, while the flow with a mapping is
\* tracked and its datagram was forwarded.
C30_Witness ==
    /\ \E i, j \in DOMAIN dropped : dropped[i].flow = "f2" /\ dropped[j].flow = "f3"
    /\ connTrackTable = {"f1"} /\ Len(forwarded) = 1
    /\ lpc = "recv" /\ connTrackLock = "free"

(***************************************************************************)
(* Further claims about the UDP forwarder                                  *)
(***************************************************************************)
\* The datagrams of flow f that were written to its upstream connection.
ForwardedOf(f) == {i \in DOMAIN forwarded : forwarded[i].flow = f}

\* C31: a datagram whose key is in the conntrack table goes from the lookup to
\* the write on the entry's connection with no reverse lookup, dial or new
\* reply loop; a datagram whose key is absent, once its dial has succeeded,
\* has its connection inserted while listen holds the mutex and one reply loop
\* started for it (none was running for the key), and goes on to the write. A
\* key is tracked exactly while a reply loop runs for it, and listen looks up
\* or dials only for a key that is absent.
C31_Step ==
    /\ (lpc = "lock" /\ lpc' # "lock" /\ cur.flow \in connTrackTable)
       => (lpc' = "unlock" /\ connTrackTable' = connTrackTable /\ rlpc' = rlpc
           /\ openConns' = openConns /\ cur' = cur)
    /\ (lpc = "unlock" /\ lpc' # "unlock")
       => (lpc' = "write" /\ connTrackTable' = connTrackTable /\ rlpc' = rlpc /\ cur' = cur)
    /\ (lpc = "write" /\ lpc' # "write")
       => /\ connTrackTable' = connTrackTable /\ rlpc' = rlpc
          /\ cur.flow \in openConns => forwarded' = Append(forwarded, cur)
    /\ connTrackTable' # connTrackTable /\ connTrackTable \subseteq connTrackTable'
       => /\ lpc = "dial" /\ lpc' = "unlock" /\ connTrackLock = "listen"
          /\ connTrackTable' = connTrackTable \cup {cur.flow}
          /\ rlpc[cur.flow] = "none"
          /\ rlpc' = [rlpc EXCEPT ![cur.flow] = "start"]
          /\ cur.flow \in openConns'
          /\ cur' = cur
    /\ \A f \in Flows : (rlpc[f] = "none" /\ rlpc'[f] # "none") => f \notin connTrackTable
C31_OneHandleOnePump ==
    /\ \A f \in Flows : f \in connTrackTable <=> rlpc[f] # "none"
    /\ lpc \in {"lookup", "dial"} => (cur.flow \notin connTrackTable /\ connTrackLock = "listen")
C31_LookupOrCreate == []C31_OneHandleOnePump /\ [][C31_Step]_vars
\* Two datagrams of one flow have been forwarded, the second on the entry the
\* first created; its reply loop is reading, and another flow is tracked too.
C31_Witness ==
    \E f, g \in Flows :
        /\ f # g /\ Cardinality(ForwardedOf(f)) >= 2
        /\ {f, g} \subseteq connTrackTable /\ rlpc[f] = "read" /\ rlpc[g] = "read"

\* C32: a Read of the reply loop that returns ECONNREFUSED leaves the loop in
\* Read under the same deadline, with the entry and the connection as they
\* were; a Read that returns any other error (the deadline's timeout included)
\* ends the loop, and the loop that ended so removes the entry of its flow and
\* closes the upstream connection; a loop never ends on ECONNREFUSED.
C32_Step ==
    \A f \in Flows, w \in BOOLEAN :
        /\ ReplyRead(f, "ECONNREFUSED", w)
           => /\ rlpc'[f] = "read" /\ idle'[f] = idle[f]
              /\ connTrackTable' = connTrackTable /\ openConns' = openConns
        /\ (ReplyRead(f, "error", w) \/ ReplyRead(f, "timeout", w))
           => /\ rlpc'[f] = "reap" /\ rlerr'[f] \in {"read error", "timeout"}
        /\ (rlpc[f] = "reap" /\ rlerr[f] \in {"read error", "timeout"} /\ rlpc'[f] # "reap")
           => /\ rlpc'[f] = "none"
              /\ f \in connTrackTable /\ f \notin connTrackTable' /\ f \notin openConns'
C32_EndsOnError ==
    \A f \in Flows :
        /\ rlpc[f] = "reap" <=> rlerr[f] \in {"read error", "timeout", "write error"}
        /\ (~panicked /\ rlpc[f] = "read" /\ f \in openConns /\ Elapsed(f) < UDPConnTrackTimeout)
           => (ENABLED ReplyRead(f, "ECONNREFUSED", FALSE) /\ ENABLED ReplyRead(f, "error", FALSE))
C32_RefusedRetried == []C32_EndsOnError /\ [][C32_Step]_vars
\* The reply loop of one flow has ended on a read error before its deadline and
\* is about to remove its entry; the loop of another flow, to which a datagram
\* was forwarded, is in a Read that can return ECONNREFUSED.
C32_Witness ==
    \E f, g \in Flows :
        /\ f # g
        /\ rlpc[f] = "reap" /\ rlerr[f] = "read error"
        /\ f \in connTrackTable \cap openConns /\ Elapsed(f) < UDPConnTrackTimeout
        /\ rlpc[g] = "read" /\ g \in connTrackTable \cap openConns /\ ForwardedOf(g) # {}
        /\ ENABLED ReplyRead(g, "ECONNREFUSED", FALSE)

\* The entry of flow f leaves the conntrack table in this step.
Removed(f) == f \in connTrackTable /\ f \notin connTrackTable'

\* C33 as stated: an entry is removed only after the upstream read of its reply
\* loop failed with an error other than ECONNREFUSED or ran into the 90 s
\* deadline.
C33_Stated ==
    \A f \in Flows : Removed(f) => rlerr[f] \in {"read error", "timeout"}
C33_Amended ==
    \A f \in Flows :
        /\ Removed(f) =>
              /\ rlpc[f] = "reap" /\ rlpc'[f] = "none"
              /\ rlerr[f] \in {"read error", "timeout", "write error"}
              /\ connTrackTable' = connTrackTable \ {f}
        /\ (rlpc[f] = "read" /\ rlerr'[f] = "write error")
           => \E w \in BOOLEAN : ReplyRead(f, "reply", w) /\ (w \/ f \notin respConns)
        /\ (rlpc[f] = "read" /\ rlerr'[f] = "timeout") => Elapsed(f) >= UDPConnTrackTimeout
        /\ ReplyStart(f, FALSE) => (rlpc'[f] = "read" /\ connTrackTable' = connTrackTable)
        /\ (lpc = "write" /\ lpc' # "write") => connTrackTable' = connTrackTable
C39_Step ==
    (lpc = "write" /\ lpc' # "write" /\ hit)
    => (cur.flow \in openConns /\ forwarded' = Append(forwarded, cur))
C39_HitWritesToOpen == [][C39_Step]_vars
\* listen found the entry of a flow and released the mutex; before its write
\* the reply loop of the flow ended, removed the entry and closed the
\* connection (Close was not called).
C39_Witness ==
    /\ lpc = "write" /\ hit /\ cpc = "idle" /\ ~panicked
    /\ cur.flow \notin connTrackTable /\ cur.flow \notin openConns
    /\ rlpc[cur.flow] = "none"

(***************************************************************************)
(* Further claims about the TCP forwarder                                  *)
(***************************************************************************)
\* The rows of the store with a domain name for the accepted connection.
TcpRows ==
    {r \in table : r.client_key = TcpClient /\ r.mapped_addr = AddrString(tdst)
                   /\ r.domain_name # ""}
NothingForwarded == upRecv = <<>> /\ clRecv = <<>>

\* C34: when the reverse lookup for an accepted connection fails or finds
\* nothing, handle returns without calling the dialer; when the dial fails it
\* returns too; in both cases the client connection is closed with no byte
\* forwarded. When the lookup finds a domain, handle calls the dialer once,
\* with the domain joined to the port of the connection's local address.
C34_Step ==
    /\ HandleLookup(TRUE) => (hpc' = "return" /\ tdials' = tdials)
    /\ (HandleLookup(FALSE) /\ TcpRows = {}) => (hpc' = "return" /\ tdials' = tdials)
    /\ (HandleLookup(FALSE) /\ TcpRows # {}) => (hpc' = "dial" /\ Len(tdials') = 1)
    /\ \A kind \in ConnKinds :
          HandleDialDone(FALSE, kind) => (hpc' = "return" /\ rightKind' = "none")
    /\ (hpc = "return" /\ hpc' # "return")
       => (hpc' = "done" /\ leftState' = "closed" /\ rightState' = "none" /\ NothingForwarded')
C34_Dispatch ==
    /\ Len(tdials) <= 1
    /\ \A i \in DOMAIN tdials :
          \E r \in TcpRows : tdials[i] = r.domain_name \o ":" \o ToString(tports.l)
    /\ hpc \in {"dial", "splice"} => Len(tdials) = 1
    /\ rightKind # "none" => Len(tdials) = 1
    /\ (hpc \in {"lookup", "dial", "return"} \/ rightKind = "none") => NothingForwarded
    /\ hpc = "done" => leftState = "closed"
C34_TcpDispatch == []C34_Dispatch /\ [][C34_Step]_vars
\* The lookup found a domain, the dial to it and port 443 failed, and the
\* client connection, on which the client had sent, was closed with nothing
\* forwarded.
C34_Witness ==
    /\ hpc = "done" /\ rightKind = "none" /\ leftState = "closed"
    /\ Len(tdials) = 1 /\ tports.l = 443
    /\ cSent > 0 /\ NothingForwarded

\* The other direction, the kind of connection a direction writes to, and what
\* its reader has received.
Opposite(d) == IF d = "lr" THEN "rl" ELSE "lr"
DstKind(d) == IF d = "lr" THEN rightKind ELSE "tcp"
HalfCloseAvailable(kind) == kind \in {"tcp", "wrapped tcp"}
Received(d) == IF d = "lr" THEN upRecv ELSE clRecv

\* C35: a direction whose copy has ended (EOF of its source, or an error)
\* shuts down its destination: if the destination has CloseWrite, by itself or
\* through Raw(), only its write side is closed, the opposite direction is left
\* as it is and goes on delivering what it reads; only a destination without
\* half-close is closed entirely.
C35_Step ==
    \A d \in Dirs :
        /\ (fwd[d] = "copy" /\ fwd'[d] # "copy")
           => /\ fwd'[d] = "shutdown"
              /\ \/ SrcBuf(d) = <<>> /\ SrcFin(d)
                 \/ SrcState(d) = "closed"
                 \/ DstState(d) # "open"
        /\ (fwd[d] = "shutdown" /\ fwd'[d] # "shutdown")
           => /\ fwd'[d] = "done"
              /\ fwd'[Opposite(d)] = fwd[Opposite(d)]
              /\ SrcState(d)' = SrcState(d)
              /\ IF HalfCloseAvailable(DstKind(d))
                 THEN DstState(d)' = (IF DstState(d) = "open" THEN "wclosed" ELSE DstState(d))
                 ELSE DstState(d)' = "closed"
        /\ \A k \in 1..MaxBytes :
              (/\ fwd[d] = "done" /\ HalfCloseAvailable(DstKind(d))
               /\ FwdCopy(Opposite(d), k) /\ DstState(Opposite(d)) = "open")
              => Received(Opposite(d))' = Received(Opposite(d)) \o Take(SrcBuf(Opposite(d)), k)
C35_OppositeGoesOn ==
    \A d \in Dirs :
        (hpc = "splice" /\ fwd[d] = "done")
        => IF HalfCloseAvailable(DstKind(d))
           THEN /\ DstState(d) = "wclosed"
                /\ (fwd[Opposite(d)] = "copy" /\ SrcBuf(Opposite(d)) # <<>>)
                   => ENABLED FwdCopy(Opposite(d), 1)
           ELSE DstState(d) = "closed"
C35_HalfClose == []C35_OppositeGoesOn /\ [][C35_Step]_vars
\* The client closed its sending direction; the direction client->upstream has
\* half-closed an upstream connection that has CloseWrite behind Raw(), and the
\* direction upstream->client is still copying, with bytes to forward.
C35_Witness ==
    /\ hpc = "splice" /\ cFin /\ fwd["lr"] = "done" /\ fwd["rl"] = "copy"
    /\ rightKind = "wrapped tcp" /\ rightState = "wclosed" /\ leftState = "open"
    /\ u2p # <<>> /\ ~uFin

(***************************************************************************)
(* Further claims about the DNS handler                                    *)
(***************************************************************************)
\* C36: while the handler works on a query of a type other than A, no row is
\* inserted into the mapping table and no expire is changed.
C36_Step ==
    (dpc # "idle" /\ dq.qtype # "A") => table' \subseteq table
C36_OnlyAWrites == [][C36_Step]_vars
\* An AAAA query, the first query to an empty store, has been answered with no
\* records, and the store holds a row for its name.
C36_Witness ==
    /\ dpc = "ret" /\ dq.qtype = "AAAA" /\ ncalls = 1
    /\ dresp = [err |-> "nil", rcode |-> "NoError", answer |-> <<>>]
    /\ \E r \in table :
          /\ table = {r}
          /\ r.client_key = ClientKeyOf(dq.src) /\ r.domain_name = DomainNameOf(dq.qname)


\* Every address of the pool is allocated to client c in table t.
PoolHeldBy(t, c) == PoolAddrs \subseteq AllocatedFor(t, c)

\* C37: an iteration of the insert loop that finds a row for its pair in the
\* table is the first of its call and returns without error the address that
\* row stores, setting the row's expire anew and leaving every other row as it
\* was, whatever candidate was drawn (one held by another domain of the client
\* included) and also when the whole pool is allocated to the client.
C37_Step ==
    \A p \in Procs, cand \in PoolAddrs :
        (EnsureMappingAttempt(p, cand, FALSE) /\ OwnRows(p) # {}) =>
            /\ mi[p] = 0
            /\ ReturnsOk(p)
            /\ \A r \in OwnRows(p) :
                  /\ mres'[p].addr = ParseAddr(r.mapped_addr).addr
                  /\ [r EXCEPT !.expire = ExpireFor(now, margs[p].ttl)] \in table'
            /\ table' \ RowsOf(table', margs[p].clientKey, margs[p].domainName)
                 = table \ OwnRows(p)
C37_RefreshNeverStarves == [][C37_Step]_vars
\* A repeated call has returned the address of its earlier binding with a
\* later expire while both addresses of the pool were allocated to its client,
\* so that whatever candidate it drew was held by a row of that client and the
\* other address by another domain.
C37_Witness ==
    \E p \in Procs :
        /\ mpc[p] = "done" /\ mres[p].err = "nil" /\ prev # NoPrev
        /\ mres[p].addr = prev.addr /\ mres[p].expire > prev.expire
        /\ PoolHeldBy(table, margs[p].clientKey)
        /\ \E r \in table : /\ r.client_key = margs[p].clientKey
                             /\ r.domain_name # margs[p].domainName

\* The rows of table t that belong to clients other than c.
RowsOfOthers(t, c) == {r \in t : r.client_key # c}

\* C38: a reverse lookup for client c answers only with the domain of a row of
\* c that holds the address asked about; an iteration of the insert loop run
\* for client c leaves the rows of every other client as they are, and what it
\* returns depends on the rows of c alone: with no row for its pair it stores
\* and returns the address drawn whenever no row of c holds it, whoever else
\* does; a sweep, whoever runs it, only deletes rows.
C38_LookupOwn ==
    \A c \in Clients, a \in LookupAddrs :
        \A res \in ReverseLookup(table, c, a, FALSE) :
            res.ok => \E r \in table : /\ r.client_key = c
                                       /\ r.mapped_addr = AddrString(a)
                                       /\ r.domain_name = res.domainName
C38_Step ==
    /\ \A p \in Procs, cand \in PoolAddrs :
          EnsureMappingAttempt(p, cand, FALSE) =>
              LET c == margs[p].clientKey
              IN  /\ RowsOfOthers(table', c) = RowsOfOthers(table, c)
                  /\ (OwnRows(p) = {} /\ cand \notin AllocatedFor(table, c))
                        => /\ ReturnsOk(p)
                           /\ mres'[p].addr = cand
                           /\ table' = table \cup {Row(c, margs[p].domainName, AddrString(cand),
                                                       ExpireFor(now, margs[p].ttl))}
    /\ \A p \in Procs, dbErr \in BOOLEAN :
          CleanupSweep(p, dbErr) => table' \subseteq table
C38_ClientIsolation == []C38_LookupOwn /\ [][C38_Step]_vars
\* Two clients hold the same virtual address for different domains, the second
\* of them having just been given it, and a reverse lookup of that address
\* gives each client its own domain.
C38_Witness ==
    \E p \in Procs, r1 \in table, r2 \in table, a \in PoolAddrs :
        /\ mpc[p] = "done" /\ mres[p].err = "nil" /\ mres[p].addr = a
        /\ r1.client_key = margs[p].clientKey /\ r1.domain_name = margs[p].domainName
        /\ r2.client_key # r1.client_key /\ r2.domain_name # r1.domain_name
        /\ r1.mapped_addr = AddrString(a) /\ r2.mapped_addr = AddrString(a)
        /\ ReverseLookup(table, r1.client_key, a, FALSE) = {Found(r1.domain_name)}
        /\ ReverseLookup(table, r2.client_key, a, FALSE) = {Found(r2.domain_name)}

=============================================================================
